---- MODULE Spec2Model ----
(***************************************************************************)
(* Model of the QE-First Android UI driver: the device bridge              *)
(* (src/src/android.py), the decision engine (src/src/planner.py), the     *)
(* structural and descriptive parsers (src/src/parser.py) and the run and  *)
(* execute commands (src/src/cli.py).                                      *)
(*                                                                         *)
(* A snapshot is the sequence of its <node> elements in document order.    *)
(* A missing XML attribute and an empty one are both the empty string:     *)
(* every read in the modelled code either defaults to "" or tests          *)
(* truthiness, or compares with a non-empty selector value.                *)
(* A bounds attribute is a sequence of one-character strings.              *)
(***************************************************************************)
EXTENDS Integers, Sequences, FiniteSets, TLC

VARIABLES file, last, input, json

vars == <<file, last, input, json>>

(***************************************************************************)
(* Bounds of the model                                                     *)
(***************************************************************************)
MaxNodes == 2
MaxCaptures == 2
MaxMinimalNodes == 6
MaxListLen == 6
MaxCleanNodes == 4
MaxDedupNodes == 4
MaxGroupNodes == 5
MaxFormChildren == 4
MaxNestedNodes == 4
MaxCalls == 2

(***************************************************************************)
(* Bounds strings                                                          *)
(***************************************************************************)
\* re.match(r'\[(\d+),(\d+)\]\[(\d+),(\d+)\]', bounds_str): anchored at the
\* start of the string only; ok = FALSE stands for the ValueError
_parse_bounds(s) ==
    LET DigitVal == ("0" :> 0) @@ ("1" :> 1) @@ ("2" :> 2) @@ ("3" :> 3) @@ ("4" :> 4)
                    @@ ("5" :> 5) @@ ("6" :> 6) @@ ("7" :> 7) @@ ("8" :> 8) @@ ("9" :> 9)
        IsDigit(c) == c \in DOMAIN DigitVal
        \* position after the longest run of digits of s that starts at i (greedy \d+)
        RECURSIVE ScanDigits(_, _)
        ScanDigits(str, i) ==
            IF i <= Len(str) /\ IsDigit(str[i]) THEN ScanDigits(str, i + 1) ELSE i
        \* int() of the digits s[i..j-1]
        RECURSIVE NumVal(_, _, _)
        NumVal(str, i, j) ==
            IF j <= i THEN 0 ELSE NumVal(str, i, j - 1) * 10 + DigitVal[str[j - 1]]
        At(str, i, c) == i <= Len(str) /\ str[i] = c
        \* the match with its four groups ending before a, b, c and d
        Matched(a, b, c, d) ==
            IF /\ At(s, 1, "[") /\ a > 2     /\ At(s, a, ",")
               /\ b > a + 1     /\ At(s, b, "]") /\ At(s, b + 1, "[")
               /\ c > b + 2     /\ At(s, c, ",")
               /\ d > c + 1     /\ At(s, d, "]")
            THEN [ok |-> TRUE,
                  val |-> <<NumVal(s, 2, a), NumVal(s, a + 1, b),
                            NumVal(s, b + 2, c), NumVal(s, c + 1, d)>>]
            ELSE [ok |-> FALSE, val |-> <<>>]
        Third(a, b, c) == Matched(a, b, c, ScanDigits(s, c + 1))
        Second(a, b) == Third(a, b, ScanDigits(s, b + 2))
        First(a) == Second(a, ScanDigits(s, a + 1))
    IN  First(ScanDigits(s, 2))

BoundsNone == <<>>
BoundsBad  == <<"[", "1", ",", "2", "]">>
BoundsA    == <<"[", "0", ",", "2", "]", "[", "4", ",", "9", "]">>
(***************************************************************************)
(* Nodes, snapshots, selectors                                             *)
(***************************************************************************)
\* a <node> element: its attributes as the strings of the XML
Node(r, t, d, c, b) ==
    [rid |-> r, text |-> t, desc |-> d, clickable |-> c, bounds |-> b]

Rids  == {"", "id1"}
Texts == {"", "OK"}
Descs == {"", "d1"}

\* the device screens a capture can serialize
Screens ==
    LET BoundsB    == <<"[", "1", "0", ",", "0", "]", "[", "1", "3", ",", "1", "]", "x">>
    IN
    { <<>>,
      << Node("", "", "", "false", BoundsA) >>,
      << Node("", "", "", "false", BoundsA),
         Node("", "OK", "", "true", BoundsB) >>,
      << Node("", "OK", "d1", "false", BoundsA),
         Node("id1", "OK", "", "true", BoundsB) >>,
      << Node("id1", "", "", "true", BoundsNone),
         Node("id1", "", "d1", "TRUE", BoundsA) >>,
      << Node("", "OK", "", "true", BoundsBad) >> }

SeqsUpTo(S, n) == UNION {[1..k -> S] : k \in 0..n}

Selector(r, t, d) == [rid |-> r, text |-> t, desc |-> d]

Selectors == {Selector(r, t, d) : r \in Rids, t \in Texts, d \in Descs}

\* an optional value: <<>> is Python's None, <<v>> is the value v
None == <<>>
Some(v) == <<v>>

(***************************************************************************)
(* The on-disk snapshot window_dump.xml                                    *)
(***************************************************************************)
NoFile == [exists |-> FALSE, gen |-> 0, wellFormed |-> FALSE, tree |-> <<>>]

\* what a successful adb pull writes: the serialized screen; gen numbers the
\* captures so that two captures of the same screen differ
Pulled(e) ==
    [exists |-> TRUE, gen |-> e.gen, wellFormed |-> e.wellFormed,
     tree |-> IF e.wellFormed THEN e.tree ELSE <<>>]

(***************************************************************************)
(* Device bridge: dump_ui                                                  *)
(***************************************************************************)
DevHeader == "List of devices attached"

\* outcomes of "adb devices": the call raised, or the lines of stdout.strip()
DevicesOutcomes ==
    { [raised |-> TRUE,  lines |-> <<>>],
      [raised |-> FALSE, lines |-> <<DevHeader>>],
      [raised |-> FALSE, lines |-> <<DevHeader, "emulator-5554 device">>] }

\* the test reading the header line as a device
check_adb_connection_header(dv) ==
    IF dv.raised THEN FALSE
    ELSE Len(dv.lines) > 0 /\ dv.lines[1] # ""

check_adb_connection(dv) ==
    IF dv.raised THEN FALSE
    ELSE Len(dv.lines) > 1 /\ dv.lines[2] # ""

\* what the bridge tool and the device answer during one dump_ui call and the
\* tap after it; an answer the call never gets to ask for is left at its
\* first value
Listed == [raised |-> FALSE, lines |-> <<DevHeader, "emulator-5554 device">>]

BridgeEnv(tl, dv, rc, mk, p1, p2, wf, tr, g, tp) ==
    [tool |-> tl, devices |-> dv, rc |-> rc, marker |-> mk, pull1 |-> p1,
     pull2 |-> p2, wellFormed |-> wf, tree |-> tr, gen |-> g, tapOk |-> tp]

BridgeEnvs(g) ==
    LET \* the serialization step's (exit code, marker) pairs that dump_ui accepts
        AcceptedSteps == {<<0, TRUE>>, <<0, FALSE>>, <<1, TRUE>>}
    IN
    {BridgeEnv(tl, Listed, 0, TRUE, "ok", "ok", TRUE, <<>>, g, TRUE) :
        tl \in {"absent", "error"}}
    \cup
    {BridgeEnv("present", dv, 0, TRUE, "ok", "ok", TRUE, <<>>, g, TRUE) :
        dv \in DevicesOutcomes \ {Listed}}
    \cup
    {BridgeEnv("present", Listed, 1, FALSE, "ok", "ok", TRUE, <<>>, g, TRUE)}
    \cup
    {BridgeEnv("present", Listed, s[1], s[2], p1, p2, TRUE, <<>>, g, TRUE) :
        s \in AcceptedSteps,
        p1 \in {"fail", "raise"}, p2 \in {"fail", "raise"}}
    \cup
    {BridgeEnv("present", Listed, s[1], s[2], p[1], p[2], FALSE, <<>>, g, TRUE) :
        s \in AcceptedSteps,
        p \in {<<"ok", "ok">>, <<"fail", "ok">>, <<"raise", "ok">>}}
    \cup
    {BridgeEnv("present", Listed, s[1], s[2], p[1], p[2], TRUE, tr, g, tp) :
        s \in AcceptedSteps,
        p \in {<<"ok", "ok">>, <<"fail", "ok">>, <<"raise", "ok">>},
        \* the device shows one of the screens, or still that of the snapshot
        tr \in Screens \cup {file.tree}, tp \in BOOLEAN}

DumpOut(res, cmds, f) == [result |-> res, cmds |-> cmds, file |-> f]

\* the pull without its fallback path
PullPrimaryOnly(f, e, cmds) ==
    LET c1 == Append(cmds, "pull:/sdcard")
    IN  IF e.pull1 # "ok" THEN DumpOut("DumpFailed", c1, f)
        ELSE IF ~Pulled(e).wellFormed
             THEN DumpOut("InvalidSnapshot", c1, Pulled(e))
             ELSE DumpOut("ok", c1, Pulled(e))

\* the two-path pull loop of dump_ui and the validation after it
PullAndValidate(f, e, cmds) ==
    LET c1 == Append(cmds, "pull:/sdcard")
        c2 == Append(c1, "pull:/data/local/tmp")
        Validate(cs) ==
            IF ~Pulled(e).exists THEN DumpOut("DumpFailed", cs, Pulled(e))
            ELSE IF ~Pulled(e).wellFormed
                 THEN DumpOut("InvalidSnapshot", cs, Pulled(e))
                 ELSE DumpOut("ok", cs, Pulled(e))
    IN  IF e.pull1 = "ok" THEN Validate(c1)
        ELSE IF e.pull2 = "ok" THEN Validate(c2)
        ELSE DumpOut("DumpFailed", c2, f)

\* the serialization step with the raise of its else branch left out
DumpAcceptedAnyExit(e) == e.rc >= 0

\* the serialization step: accepted on exit code 0, or on a non-zero exit
\* code when "dumped to" is in stderr or stdout
DumpAccepted(e) == e.rc = 0 \/ e.marker

dump_ui(f, e) ==
    IF e.tool = "absent" THEN DumpOut("ToolNotFound", <<"version">>, f)
    ELSE IF e.tool = "error"
         THEN DumpOut("CalledProcessError", <<"version">>, f)
    ELSE IF ~check_adb_connection(e.devices)
         THEN DumpOut("NoDeviceConnected", <<"version", "devices">>, f)
    ELSE IF ~DumpAccepted(e)
         THEN DumpOut("DumpFailed", <<"version", "devices", "dump">>, f)
    ELSE PullAndValidate(f, e, <<"version", "devices", "dump">>)

(***************************************************************************)
(* Device bridge: tap_node                                                 *)
(***************************************************************************)
\* the loop body comparing empty selector fields too
MatchesEveryField(node, sel) ==
    node.rid = sel.rid /\ node.text = sel.text /\ node.desc = sel.desc

\* the three tests of the loop body: a selector field is compared only when
\* it is non-empty
Matches(node, sel) ==
    /\ (sel.rid # "" => node.rid = sel.rid)
    /\ (sel.text # "" => node.text = sel.text)
    /\ (sel.desc # "" => node.desc = sel.desc)

\* a center that rounds halves up
CenterRoundedUp(v) == <<(v[1] + v[3] + 1) \div 2, (v[2] + v[4] + 1) \div 2>>

Center(v) == <<(v[1] + v[3]) \div 2, (v[2] + v[4]) \div 2>>

\* tap_node resolving in the snapshot already on disk when there is one
ResolvedCached(f, d) == IF f.exists /\ f.wellFormed THEN f ELSE d.file

\* the snapshot tap_node parses after dump_ui returned its path
Resolved(f, d) == d.file

\* a check that only a missing attribute fails, not an empty one
NoBoundsAttribute(bnds) == FALSE

\* if not bounds: the attribute is missing or empty
NoBounds(bnds) == bnds = <<>>

tap_node(f, sel, e) ==
    LET \* for node in root.iter('node'): the index of the first match from i on,
        \* 0 for found_node = None
        RECURSIVE FindNode(_, _, _)
        FindNode(tree, want, i) ==
            IF i > Len(tree) THEN 0
            ELSE IF Matches(tree[i], want) THEN i
            ELSE FindNode(tree, want, i + 1)
        TapOut(res, cmds, snap, found, g, at) ==
            [result |-> res, cmds |-> cmds, file |-> snap, found |-> found,
             gen |-> g, tap |-> at]
        \* d is what dump_ui returned, snap the snapshot parsed, found the node
        \* matched in it, bnds its bounds attribute and pb the parsed bounds
        Tap(d, snap, found, bnds, pb) ==
            IF d.result # "ok"
            THEN TapOut(d.result, d.cmds, d.file, 0, 0, <<>>)
            ELSE IF found = 0
            THEN TapOut("NotFound", d.cmds, d.file, 0, snap.gen, <<>>)
            ELSE IF NoBounds(bnds)
            THEN TapOut("MissingBounds", d.cmds, d.file, found, snap.gen, <<>>)
            ELSE IF ~pb.ok
            THEN TapOut("InvalidInput", d.cmds, d.file, found, snap.gen, <<>>)
            ELSE TapOut(IF e.tapOk THEN "ok" ELSE "CalledProcessError",
                        Append(d.cmds, "tap"), d.file, found, snap.gen,
                        Center(pb.val))
        WithBounds(d, snap, found, bnds) ==
            Tap(d, snap, found, bnds, _parse_bounds(bnds))
        WithNode(d, snap, found) ==
            WithBounds(d, snap, found, snap.tree[found].bounds)
        WithSnapshot(d, snap) == WithNode(d, snap, FindNode(snap.tree, sel, 1))
        WithDump(d) == WithSnapshot(d, Resolved(f, d))
    IN  WithDump(dump_ui(f, e))

(***************************************************************************)
(* Parsers: parse and parse_for_llm                                        *)
(***************************************************************************)
HasIdentity(n) == n.rid # "" \/ n.text # "" \/ n.desc # ""

\* a comparison that ignores the case of the attribute value
IsTrueAnyCase(attr) == attr \in {"true", "TRUE"}

\* node.get("clickable", "false") == "true"
IsTrue(attr) == attr = "true"

\* the node_info dict of parse
NodeInfo(n) ==
    [rid |-> n.rid, text |-> n.text, desc |-> n.desc,
     clickable |-> IsTrue(n.clickable), bounds |-> n.bounds]

RECURSIVE parse(_)
parse(tree) ==
    IF tree = <<>> THEN <<>>
    ELSE IF HasIdentity(Head(tree))
         THEN <<NodeInfo(Head(tree))>> \o parse(Tail(tree))
         ELSE parse(Tail(tree))

parse_for_llm(tree) ==
    LET \* location of parse_for_llm: the center of the bounds, None when the bounds
        \* are empty or do not parse
        Location(b) ==
            LET At(m) == IF b # <<>> /\ m.ok THEN Some(Center(m.val)) ELSE None
            IN  At(_parse_bounds(b))
        \* the node_info dict of parse_for_llm, without the fields derived from the
        \* class name and the boolean properties other than clickable
        LlmNode(n, idx) ==
            [index |-> idx, clickable |-> IsTrue(n.clickable),
             location |-> Location(n.bounds),
             identifiers |-> [resource_id |-> n.rid, text |-> n.text,
                              content_desc |-> n.desc]]
        RECURSIVE LlmNodesFrom(_, _)
        LlmNodesFrom(nodes, idx) ==
            IF nodes = <<>> THEN <<>>
            ELSE IF HasIdentity(Head(nodes))
                 THEN <<LlmNode(Head(nodes), idx)>> \o LlmNodesFrom(Tail(nodes), idx + 1)
                 ELSE LlmNodesFrom(Tail(nodes), idx)
    IN  LlmNodesFrom(tree, 0)

(***************************************************************************)
(* Decision engine                                                         *)
(***************************************************************************)
\* the selector dict both loops of choose_node_stub return
StubSelector(n) == Selector(n.rid, n.text, n.desc)

\* the first loop without its clickable test
RECURSIVE StubByTextAnyNode(_, _)
StubByTextAnyNode(nodes, i) ==
    IF i > Len(nodes) THEN 0
    ELSE IF nodes[i].text # "" THEN i
    ELSE StubByTextAnyNode(nodes, i + 1)

\* first loop: the first clickable node with non-empty text
RECURSIVE StubByText(_, _)
StubByText(nodes, i) ==
    IF i > Len(nodes) THEN 0
    ELSE IF nodes[i].clickable /\ nodes[i].text # "" THEN i
    ELSE StubByText(nodes, i + 1)

\* second loop: the first clickable node with a resource-id or content-desc
RECURSIVE StubByIdentifier(_, _)
StubByIdentifier(nodes, i) ==
    IF i > Len(nodes) THEN 0
    ELSE IF nodes[i].clickable /\ (nodes[i].rid # "" \/ nodes[i].desc # "")
         THEN i
    ELSE StubByIdentifier(nodes, i + 1)

choose_node_stub(nodes) ==
    IF StubByText(nodes, 1) # 0
    THEN Some(StubSelector(nodes[StubByText(nodes, 1)]))
    ELSE IF StubByIdentifier(nodes, 1) # 0
    THEN Some(StubSelector(nodes[StubByIdentifier(nodes, 1)]))
    ELSE None

ProcessEnvs ==
    LET \* values of an environment variable: not set, set to "", set to a value
        EnvValues == {"unset", "empty", "set"}
    IN  [key : EnvValues, project : EnvValues]

\* bool(os.getenv(name))
Truthy(v) == v = "set"

\* the goal argument: None, "" or a goal
NoGoal == "<None>"
GoalGiven(g) == g # NoGoal /\ g # ""

NoReply == [kind |-> "raise", err |-> "ImportError", action |-> "", index |-> 0]
LlmEnvs ==
    LET \* what the model backend does in one call: whether the client module
        \* imports, and the reply of analyze_screen: an exception, or a decision
        \* whose element_index is an integer or (index = "x") not an integer
        LlmActions == {"click", "type"}
        LlmIndexes == (0 - 1)..MaxNodes
        LlmFailures == {"RemoteError", "InvalidResponse", "ConnectionError"}
        LlmReplies ==
            {[kind |-> "raise", err |-> x, action |-> "", index |-> 0] :
                x \in LlmFailures}
            \cup
            {[kind |-> "badtype", err |-> "TypeError", action |-> a, index |-> 0] :
                a \in LlmActions}
            \cup
            {[kind |-> "decision", err |-> "", action |-> a, index |-> i] :
                a \in LlmActions, i \in LlmIndexes}
    IN
    {[importOk |-> FALSE, reply |-> NoReply]}
    \cup {[importOk |-> TRUE, reply |-> r] : r \in LlmReplies}

\* the environment of a call: the variables of the process and those the
\* .env file defines ("unset": the file does not define it, or there is no file)
Environment(pe) == [key |-> pe.key, project |-> pe.project, dotenv |-> input.dotenv]

\* os.environ after load_dotenv(): the file supplies the variables the
\* process does not have (override is off)
load_dotenv(pe) ==
    [pe EXCEPT !.key = IF pe.key = "unset" THEN pe.dotenv.key ELSE pe.key,
               !.project = IF pe.project = "unset" THEN pe.dotenv.project
                           ELSE pe.project]

\* client selection of choose_node_with_llm and analyze_screen_for_goal, by
\* the environment before either client module is imported
SelectClient(pe) == IF Truthy(pe.key) THEN "simple" ELSE "vertex"

\* get_llm_client(): the constructor raises without its credential; the
\* import of the client's module has run load_dotenv() by then
ClientConfigured(pe) ==
    IF SelectClient(pe) = "simple" THEN Truthy(load_dotenv(pe).key)
    ELSE Truthy(load_dotenv(pe).project)

InRange(idx, list) == 0 <= idx /\ idx < Len(list)

LlmOut(res, sel, client, called) ==
    [result |-> res, sel |-> sel, client |-> client, called |-> called]

\* the steps choose_node_with_llm and analyze_screen_for_goal share, up to
\* the reply of the model: "" when the reply is a decision
LlmPathFailure(f, pe, le, missing) ==
    IF ~le.importOk THEN "ImportError"
    ELSE IF ~f.exists THEN missing
    ELSE IF ~f.wellFormed THEN "XMLSyntaxError"
    ELSE IF ~ClientConfigured(pe) THEN "MissingConfig"
    ELSE IF le.reply.kind = "raise" THEN le.reply.err
    ELSE ""

ModelCalled(f, pe, le) ==
    le.importOk /\ f.exists /\ f.wellFormed /\ ClientConfigured(pe)

\* the index resolved against the node list of the caller
choose_node_from_caller_list(nodes, goal, f, pe, le) ==
    LET fail == LlmPathFailure(f, pe, le, "MissingSnapshot")
        idx  == le.reply.index
    IN  IF fail # ""
        THEN LlmOut(fail, None, SelectClient(pe), ModelCalled(f, pe, le))
        ELSE IF le.reply.kind = "badtype"
        THEN LlmOut("TypeError", None, SelectClient(pe), TRUE)
        ELSE IF InRange(idx, nodes)
        THEN LlmOut("ok", Some(StubSelector(nodes[idx + 1])),
                    SelectClient(pe), TRUE)
        ELSE LlmOut("InvalidIndex", None, SelectClient(pe), TRUE)

choose_node_with_llm(nodes, goal, f, pe, le) ==
    LET idx == le.reply.index
        Among(fail, llm_nodes) ==
            LET ids == llm_nodes[idx + 1].identifiers
            IN  IF fail # ""
                THEN LlmOut(fail, None, SelectClient(pe), ModelCalled(f, pe, le))
                ELSE IF le.reply.kind = "badtype"
                THEN LlmOut("TypeError", None, SelectClient(pe), TRUE)
                ELSE IF InRange(idx, llm_nodes)
                THEN LlmOut("ok",
                            Some(Selector(ids.resource_id, ids.text,
                                          ids.content_desc)),
                            SelectClient(pe), TRUE)
                ELSE LlmOut("InvalidIndex", None, SelectClient(pe), TRUE)
    IN  Among(LlmPathFailure(f, pe, le, "MissingSnapshot"), parse_for_llm(f.tree))

\* os.getenv(...) is not None for either credential
UseLlm(pe) == pe.key # "unset" \/ pe.project # "unset"

\* except ValueError in place of except Exception
CaughtValueError(err) ==
    err \in {"InvalidIndex", "InvalidResponse", "MissingConfig"}

\* except Exception: every failure of the LLM path is an Exception
Caught(err) == TRUE

choose_node(nodes, goal, f, pe, le) ==
    LET ChooseOut(sel, path, escaped, llm) ==
            [sel |-> sel, path |-> path, escaped |-> escaped, llm |-> llm]
        Stub(llm) == ChooseOut(choose_node_stub(nodes), "stub", "", llm)
        Tried(w) ==
            IF w.result = "ok" THEN ChooseOut(w.sel, "llm", "", w.result)
            ELSE IF Caught(w.result) THEN Stub(w.result)
            ELSE ChooseOut(None, "llm", w.result, w.result)
    IN  IF UseLlm(pe) /\ GoalGiven(goal)
        THEN Tried(choose_node_with_llm(nodes, goal, f, pe, le))
        ELSE Stub("")

analyze_screen_for_goal(goal, f, pe, le) ==
    LET \* the decision analyze_screen_for_goal returns: the element is attached only
        \* when element_index is in range
        Decision(a, idx, el) == [action |-> a, index |-> idx, element |-> el]
        AnalyzeOut(res, dec, client, called) ==
            [result |-> res, decision |-> dec, client |-> client, called |-> called]
        idx == le.reply.index
        Among(fail, nodes) ==
            IF fail # ""
            THEN AnalyzeOut(fail, None, SelectClient(pe), ModelCalled(f, pe, le))
            ELSE IF le.reply.kind = "badtype"
            THEN AnalyzeOut("TypeError", None, SelectClient(pe), TRUE)
            ELSE AnalyzeOut("ok",
                     Some(Decision(le.reply.action, idx,
                                   IF InRange(idx, nodes)
                                   THEN Some(nodes[idx + 1]) ELSE None)),
                     SelectClient(pe), TRUE)
    IN  Among(LlmPathFailure(f, pe, le, "MissingSnapshot"), parse_for_llm(f.tree))

(***************************************************************************)
(* Command-line interface: run and execute                                 *)
(***************************************************************************)
\* the operator's answer to click.confirm: yes, no, the empty line (the
\* default applies) or end of input (click raises Abort)
Answers == {"y", "n", "", "eof"}

\* click.confirm with default=True
ConfirmedByDefault(ans) == ans \in {"y", ""}

\* click.confirm(..., default=False)
Confirmed(ans) == ans = "y"

\* a test that lets the "type" action through to the tap
IsClickOrType(action) == action \in {"click", "type"}

\* result['action'] == 'click'
IsClick(action) == action = "click"

IdleEnv == [key |-> "unset", project |-> "unset"]
IdleLlm == [importOk |-> FALSE, reply |-> NoReply]

NoCall ==
    LET \* the record of one call: its arguments, what the outside answered, and
        \* what it did
        IdleBridge == BridgeEnv("present", Listed, 0, TRUE, "ok", "ok", TRUE, <<>>, 0, TRUE)
    IN
    [op |-> "none", result |-> "", cmds |-> <<>>, tap |-> <<>>, found |-> 0,
     gen |-> 0, sel |-> None, answer |-> "", asked |-> FALSE,
     goal |-> NoGoal, nodes |-> <<>>, path |-> "", llm |-> "",
     called |-> FALSE, client |-> "", decision |-> None, out |-> <<>>,
     all_elements |-> <<>>, e |-> IdleBridge, pe |-> IdleEnv, le |-> IdleLlm]

\* a call that ended before it touched the device
Early(c, res) == [c EXCEPT !.result = res]

\* the call record after tap_node returned or raised
WithTap(c, t, sel, e) ==
    [c EXCEPT !.result = t.result, !.cmds = t.cmds, !.tap = t.tap,
              !.found = t.found, !.gen = t.gen, !.sel = Some(sel), !.e = e]

\* the selector execute builds from the decision's element
ElementSelector(el) ==
    Selector(el.identifiers.resource_id, el.identifiers.text,
             el.identifiers.content_desc)

\* the JSON files the dump commands derive from a snapshot, in the working
\* directory
JsonFiles ==
    {"dumpXMLtoJson.json", "dumpMinimal.json", "smartDump.json",
     "dumpTree.json"}

\* a derived file that was never written
NoJson == [exists |-> FALSE, by |-> "", parser |-> "", gen |-> 0]

\* the dump commands: the parser each runs on the fresh snapshot and the
\* file it saves the output to ("" when it only prints it)
DumpCommands ==
    {[cmd |-> "dump", parser |-> "parse", target |-> ""],
     [cmd |-> "dump_llm", parser |-> "parse_clean_tree",
      target |-> "dumpXMLtoJson.json"],
     [cmd |-> "dump_fast", parser |-> "parse_ultra_fast",
      target |-> "dumpXMLtoJson.json"],
     [cmd |-> "dump_minimal", parser |-> "parse_minimal_for_llm",
      target |-> "dumpMinimal.json"],
     [cmd |-> "smart_dump", parser |-> "parse_ui_tree",
      target |-> "smartDump.json"],
     [cmd |-> "dump_tree", parser |-> "parse_hierarchical_for_llm",
      target |-> "dumpTree.json"]}

(***************************************************************************)
(* State machine                                                           *)
(***************************************************************************)
Init ==
    /\ file = NoFile
    /\ last = NoCall
    /\ input = [kind |-> "dotenv", dotenv |-> IdleEnv]
    /\ json = [n \in JsonFiles |-> NoJson]

\* no call is in progress
Idle == last = NoCall

CanCapture == Idle /\ file.gen < MaxCaptures

\* android.dump_ui called on its own (the capture of the dump commands)
DumpUI ==
    LET \* every combination of answers, for dump_ui called on its own: failures of
        \* several steps at once included
        AllBridgeEnvs(g) ==
            {BridgeEnv(tl, dv, rc, mk, p1, p2, wt[1], wt[2], g, TRUE) :
                tl \in {"present", "absent", "error"}, dv \in DevicesOutcomes,
                rc \in {0, 1}, mk \in BOOLEAN,
                p1 \in {"ok", "fail", "raise"}, p2 \in {"ok", "fail", "raise"},
                wt \in {<<FALSE, <<>>>>} \cup {<<TRUE, tr>> : tr \in Screens}}
    IN
    /\ CanCapture
    /\ \E e \in AllBridgeEnvs(file.gen + 1) :
          LET Dumped(d) ==
                  /\ file' = d.file
                  /\ last' = [NoCall EXCEPT !.op = "dump_ui", !.result = d.result,
                                            !.cmds = d.cmds, !.e = e,
                                            !.gen = IF d.result = "ok"
                                                    THEN d.file.gen ELSE 0]
          IN  Dumped(dump_ui(file, e))
    /\ UNCHANGED <<input, json>>

\* android.tap_node called with any selector
TapNode ==
    /\ CanCapture
    /\ \E sel \in Selectors, e \in BridgeEnvs(file.gen + 1) :
          LET Tapped(t) ==
                  /\ file' = t.file
                  /\ last' = WithTap([NoCall EXCEPT !.op = "tap_node"], t, sel, e)
          IN  Tapped(tap_node(file, sel, e))
    /\ UNCHANGED <<input, json>>

\* one of the commands cli.dump, dump_llm, dump_fast, dump_minimal, smart_dump
\* and dump_tree, from the capture to the saved file: dump_ui raising makes
\* the command abort (the parser and the save are not reached)
DumpCmd(c) ==
    LET \* open(output_file, 'w') + json.dump: the file holds the output of one
        \* parser on the snapshot of capture g, whatever it held before
        Written(cmd, parser, g) ==
            [exists |-> TRUE, by |-> cmd, parser |-> parser, gen |-> g]
    IN
    /\ CanCapture
    /\ \E e \in BridgeEnvs(file.gen + 1) :
          LET Dumped(d) ==
                  /\ file' = d.file
                  /\ last' = [NoCall EXCEPT !.op = c.cmd, !.result = d.result,
                                            !.cmds = d.cmds, !.e = e,
                                            !.gen = IF d.result = "ok"
                                                    THEN d.file.gen ELSE 0]
                  /\ json' = IF d.result = "ok" /\ c.target # ""
                             THEN [json EXCEPT ![c.target] =
                                      Written(c.cmd, c.parser, d.file.gen)]
                             ELSE json
          IN  Dumped(dump_ui(file, e))
    /\ UNCHANGED input

\* node lists a caller hands to choose_node
PlanLists ==
    {parse(t) : t \in Screens}
    \cup {<<NodeInfo(Node("id1", "", "d1", "true", BoundsA)),
            NodeInfo(Node("id2", "Click Me", "", "true", BoundsA))>>,
          <<NodeInfo(Node("", "", "", "true", BoundsA))>>}

\* planner.choose_node called with any node list and goal
ChooseNode ==
    LET Goals == {NoGoal, "", "open settings"}
    IN
    /\ Idle
    /\ \E nodes \in PlanLists, goal \in Goals, pe \in ProcessEnvs :
        \E le \in IF UseLlm(pe) /\ GoalGiven(goal) THEN LlmEnvs ELSE {IdleLlm} :
          LET Chosen(c) ==
                  last' = [NoCall EXCEPT !.op = "choose_node", !.nodes = nodes,
                                        !.goal = goal, !.pe = pe, !.le = le,
                                        !.sel = c.sel, !.path = c.path,
                                        !.llm = c.llm,
                                        !.result = IF c.escaped = "" THEN "ok"
                                                   ELSE c.escaped]
          IN  Chosen(choose_node(nodes, goal, file, Environment(pe), le))
    /\ UNCHANGED <<file, input, json>>

\* cli.run: one process, from the snapshot check to the tap
Run ==
    /\ CanCapture
    /\ \E pe \in {IdleEnv, [key |-> "set", project |-> "set"]} :
          LET c0 == [NoCall EXCEPT !.op = "run"]
              Tapped(c1, t, sel, e) ==
                  file' = t.file /\ last' = WithTap(c1, t, sel, e)
              Asked(c1, sel, ans) ==
                  IF ans = "eof"
                  THEN last' = Early(c1, "Abort") /\ file' = file
                  ELSE IF ~Confirmed(ans)
                  THEN last' = Early(c1, "Aborted.") /\ file' = file
                  ELSE \E e \in BridgeEnvs(file.gen + 1) :
                          Tapped(c1, tap_node(file, sel, e), sel, e)
              With(chosen) ==
                  IF ~file.exists
                  THEN last' = Early(c0, "MissingSnapshot") /\ file' = file
                  ELSE IF ~file.wellFormed
                  THEN last' = Early(c0, "XMLSyntaxError") /\ file' = file
                  ELSE IF chosen = None
                  THEN last' = Early(c0, "NoSuitableNode") /\ file' = file
                  ELSE \E ans \in Answers :
                          Asked([c0 EXCEPT !.sel = chosen, !.asked = TRUE,
                                           !.answer = ans], chosen[1], ans)
          IN  With(choose_node(parse(file.tree), NoGoal, file, Environment(pe),
                               IdleLlm).sel)
    /\ UNCHANGED <<input, json>>

\* cli.execute GOAL: one process, from the analysis to the tap
Execute ==
    /\ CanCapture
    /\ \E pe \in ProcessEnvs, le \in LlmEnvs :
          LET Tapped(c1, t, sel, e) ==
                  file' = t.file /\ last' = WithTap(c1, t, sel, e)
              Asked(a, c1, sel, ans) ==
                  IF ans = "eof"
                  THEN last' = Early(c1, "Abort") /\ file' = file
                  ELSE IF ~Confirmed(ans)
                  THEN last' = Early(c1, "Aborted.") /\ file' = file
                  ELSE IF ~IsClick(a.decision[1].action)
                  THEN last' = Early(c1, "NotImplemented") /\ file' = file
                  ELSE \E e \in BridgeEnvs(file.gen + 1) :
                          Tapped(c1, tap_node(file, sel, e), sel, e)
              Outcome(a, c0) ==
                  IF a.result # "ok"
                  THEN last' = Early(c0, a.result) /\ file' = file
                  ELSE IF a.decision[1].element = None
                  THEN last' = Early(c0, "KeyError") /\ file' = file
                  ELSE \E ans \in Answers :
                          Asked(a, [c0 EXCEPT !.asked = TRUE, !.answer = ans],
                                ElementSelector(a.decision[1].element[1]), ans)
              Analysed(a) ==
                  Outcome(a, [NoCall EXCEPT !.op = "execute",
                                            !.goal = "open settings",
                                            !.pe = pe, !.le = le,
                                            !.client = a.client,
                                            !.called = a.called,
                                            !.decision = a.decision])
          IN  Analysed(analyze_screen_for_goal("open settings", file, Environment(pe), le))
    /\ UNCHANGED <<input, json>>

\* the environments of a direct call of the LLM path: no credential at all,
\* or the API key
CallEnvs == {IdleEnv, [key |-> "set", project |-> "set"]}

\* planner.choose_node_with_llm called with any node list
ChooseNodeWithLlm ==
    LET \* node lists a caller hands to choose_node_with_llm
        CallerLists ==
            {<<>>,
             <<NodeInfo(Node("id1", "", "d1", "true", BoundsA)),
               NodeInfo(Node("id2", "Click Me", "", "true", BoundsA))>>}
    IN
    /\ Idle
    /\ \E nodes \in CallerLists, pe \in CallEnvs, le \in LlmEnvs :
          LET Returned(w) ==
                  last' = [NoCall EXCEPT !.op = "choose_node_with_llm",
                                        !.nodes = nodes, !.goal = "open settings",
                                        !.pe = pe, !.le = le, !.sel = w.sel,
                                        !.client = w.client, !.called = w.called,
                                        !.result = w.result]
          IN  Returned(choose_node_with_llm(nodes, "open settings", file,
                                            Environment(pe), le))
    /\ UNCHANGED <<file, input, json>>

\* planner.analyze_screen_for_goal called with a goal
AnalyzeScreenForGoal ==
    /\ Idle
    /\ \E pe \in CallEnvs, le \in LlmEnvs :
          LET Analysed(a) ==
                  last' = [NoCall EXCEPT !.op = "analyze_screen_for_goal",
                                        !.goal = "open settings", !.pe = pe,
                                        !.le = le, !.client = a.client,
                                        !.called = a.called,
                                        !.decision = a.decision,
                                        !.result = a.result]
          IN  Analysed(analyze_screen_for_goal("open settings", file, Environment(pe), le))
    /\ UNCHANGED <<file, input, json>>

\* the call returns or the command's process exits: only the snapshot file
\* outlives it
Return ==
    /\ ~Idle
    /\ last' = NoCall
    /\ UNCHANGED <<file, input, json>>

(***************************************************************************)
(* The pure functions on bounded inputs                                    *)
(***************************************************************************)
InitFn ==
    LET FnTexts == {"", "OK", "ok"}
        \* node dicts handed to choose_node_stub
        DictNodes ==
            {NodeInfo(Node(r, t, d, c, BoundsA)) :
                r \in Rids, t \in Texts, d \in Descs, c \in {"true", "false"}}
        \* nodes of the snapshots selectors are resolved in
        MatchNodes ==
            {Node(r, t, d, "true", BoundsA) : r \in Rids, t \in FnTexts, d \in Descs}
        FnInput(k, ns, tr, sel) == [kind |-> k, nodes |-> ns, tree |-> tr, sel |-> sel]
        FnInputs ==
            {FnInput("plan", ns, <<>>, Selector("", "", "")) :
                ns \in SeqsUpTo(DictNodes, MaxNodes)}
            \cup
            {FnInput("tap", <<>>, tr, sel) :
                tr \in SeqsUpTo(MatchNodes, MaxNodes), sel \in Selectors}
    IN
    /\ file = NoFile
    /\ last = NoCall
    /\ input \in FnInputs
    /\ json = [n \in JsonFiles |-> NoJson]

\* choose_node_stub applied to the input list
FnStub ==
    /\ Idle
    /\ input.kind = "plan"
    /\ last' = [NoCall EXCEPT !.op = "choose_node_stub",
                              !.nodes = input.nodes,
                              !.sel = choose_node_stub(input.nodes)]
    /\ UNCHANGED <<file, input, json>>

\* tap_node applied to the input selector on a device showing the input tree
FnTap ==
    /\ Idle
    /\ input.kind = "tap"
    /\ LET e == BridgeEnv("present", Listed, 0, TRUE, "ok", "ok", TRUE,
                          input.tree, file.gen + 1, TRUE)
           Tapped(t) ==
               /\ file' = t.file
               /\ last' = WithTap([NoCall EXCEPT !.op = "tap_node"], t,
                                  input.sel, e)
       IN  Tapped(tap_node(file, input.sel, e))
    /\ UNCHANGED <<input, json>>

SpecFn == InitFn /\ [][FnStub \/ FnTap]_vars

(***************************************************************************)
(* Minimal Actionable Parser: parse_minimal_for_llm                        *)
(***************************************************************************)
_get_element_type(cl) ==
    LET \* the lower-cased words _get_element_type looks for that occur in a class
        \* name
        ClassWords ==
            [name \in {"android.widget.Button", "android.widget.EditText",
                     "android.widget.TextView", "android.widget.ImageView",
                     "android.widget.ImageButton", "android.widget.FrameLayout",
                     "android.widget.ScrollView", "android.view.View", ""} |->
                CASE name = "android.widget.Button" -> {"button"}
                  [] name = "android.widget.EditText" -> {"edittext"}
                  [] name = "android.widget.TextView" -> {"textview"}
                  [] name = "android.widget.ImageView" -> {"imageview", "image"}
                  [] name = "android.widget.ImageButton" -> {"button", "image"}
                  [] name = "android.widget.FrameLayout" -> {"layout"}
                  [] name = "android.widget.ScrollView" -> {"scrollview"}
                  [] OTHER -> {}]
        \* "word" in class_lower
        Contains(name, word) == word \in ClassWords[name]
    IN
    IF Contains(cl, "button") THEN "button"
    ELSE IF Contains(cl, "edittext") \/ Contains(cl, "input") THEN "input"
    ELSE IF Contains(cl, "textview") THEN "text"
    ELSE IF Contains(cl, "imageview") \/ Contains(cl, "image") THEN "image"
    ELSE IF Contains(cl, "checkbox") THEN "checkbox"
    ELSE IF Contains(cl, "switch") THEN "switch"
    ELSE IF Contains(cl, "radiobutton") THEN "radio_button"
    ELSE IF Contains(cl, "spinner") THEN "dropdown"
    ELSE IF Contains(cl, "seekbar") THEN "slider"
    ELSE IF Contains(cl, "recyclerview") \/ Contains(cl, "listview") THEN "list"
    ELSE IF Contains(cl, "scrollview") THEN "scroll_container"
    ELSE IF Contains(cl, "webview") THEN "webview"
    ELSE IF Contains(cl, "layout") \/ Contains(cl, "viewgroup") THEN "container"
    ELSE "element"

\* the label as the list of its space-separated parts
_create_label(text, desc, rid, type) ==
    LET \* the words _create_label derives from a resource id: the part after the
        \* last "/", "_" and "-" replaced by spaces, camelCase split, lower-cased
        IdWords ==
            [r \in {"", "id1", "com.app:id/login_button"} |->
                IF r = "com.app:id/login_button" THEN "login button" ELSE r]
    IN
    IF text # "" THEN <<text>>
    ELSE IF desc # "" THEN <<desc>>
    ELSE IF rid # "" THEN <<IdWords[rid], type>>
    ELSE <<type>>

\* str.strip() on the attribute values of the snapshots
Strip(s) == IF s = " " THEN "" ELSE s

\* a size test that drops a node only if both sides are short
TooSmallBothAxes(v) == v[3] - v[1] < 20 /\ v[4] - v[2] < 20

\* width < 20 or height < 20
TooSmall(v) == v[3] - v[1] < 20 \/ v[4] - v[2] < 20

_group_similar_elements(els) ==
    LET \* end of the run of elements of type t that starts at j
        RECURSIVE RunEnd(_, _, _)
        RunEnd(es, j, t) ==
            IF j <= Len(es) /\ es[j].t = t THEN RunEnd(es, j + 1, t) ELSE j
        \* similar_items[:5]
        FirstFive(s) == SubSeq(s, 1, IF Len(s) < 5 THEN Len(s) ELSE 5)
        \* the while loop of _group_similar_elements from element i on
        RECURSIVE GroupFrom(_, _)
        GroupFrom(es, i) ==
            IF i > Len(es) THEN <<>>
            ELSE IF /\ i + 2 <= Len(es)
                    /\ es[i].t = es[i + 1].t /\ es[i + 1].t = es[i + 2].t
                    /\ es[i].c = es[i + 1].c /\ es[i + 1].c = es[i + 2].c
            THEN LET j == RunEnd(es, i + 1, es[i].t)
                     similar == [m \in 1..(j - i) |->
                                    [l |-> es[i + m - 1].l, src |-> es[i + m - 1].src]]
                 IN  <<[i |-> es[i].i, t |-> "L",
                        l |-> <<"List of", es[i].t, "items">>,
                        c |-> FALSE, h |-> "select", n |-> j - i,
                        items |-> FirstFive(similar), src |-> es[i].src]>>
                     \o GroupFrom(es, j)
            ELSE <<es[i]>> \o GroupFrom(es, i + 1)
    IN  IF Len(els) < 5 THEN els ELSE GroupFrom(els, 1)

\* the "e" list of parse_minimal_for_llm
parse_minimal_for_llm(tree) ==
    LET \* element_type[0].upper()
        TypeLetter(type) ==
            CASE type = "button" -> "B" [] type = "input" -> "I"
              [] type = "text" -> "T"   [] type = "image" -> "I"
              [] type = "container" -> "C" [] type = "scroll_container" -> "S"
              [] OTHER -> "E"
        \* the "Skip tiny elements" block: bounds that do not parse are not measured
        Tiny(b) == b # <<>> /\ _parse_bounds(b).ok /\ TooSmall(_parse_bounds(b).val)
        \* the element dict; c = FALSE and h = "" stand for an absent key, n (the
        \* number in the label "List of n t items") and items are used by list
        \* elements only, and src is the position of the node the element was
        \* built from (not part of the output)
        MinimalElement(n, index, k) ==
            LET type == _get_element_type(n.class)
                clickable == IsTrue(n.clickable)
            IN  [i |-> index, t |-> TypeLetter(type),
                 l |-> _create_label(Strip(n.text), Strip(n.desc), n.rid, type),
                 c |-> clickable,
                 h |-> IF type = "input" THEN "type"
                       ELSE IF type = "button" \/ clickable THEN "click" ELSE "",
                 n |-> 0, items |-> <<>>, src |-> k]
        \* the loop over //node from node k on, with the keys seen so far and the
        \* next index
        RECURSIVE MinimalFrom(_, _, _, _)
        MinimalFrom(nodes, k, seen, index) ==
            IF k > Len(nodes) THEN <<>>
            ELSE LET n    == nodes[k]
                     type == _get_element_type(n.class)
                     key  == <<Strip(n.text), Strip(n.desc), n.rid, IsTrue(n.clickable)>>
                 IN  IF n.enabled # "true"
                     THEN MinimalFrom(nodes, k + 1, seen, index)
                     ELSE IF type \in {"container", "scroll_container"}
                             /\ ~IsTrue(n.clickable)
                     THEN MinimalFrom(nodes, k + 1, seen, index)
                     ELSE IF Strip(n.text) = "" /\ Strip(n.desc) = "" /\ n.rid = ""
                     THEN MinimalFrom(nodes, k + 1, seen, index)
                     ELSE IF key \in seen
                     THEN MinimalFrom(nodes, k + 1, seen, index)
                     ELSE IF Tiny(n.bounds)
                     THEN MinimalFrom(nodes, k + 1, seen \cup {key}, index)
                     ELSE <<MinimalElement(n, index, k)>>
                          \o MinimalFrom(nodes, k + 1, seen \cup {key}, index + 1)
    IN  _group_similar_elements(MinimalFrom(tree, 1, {}, 0))

(***************************************************************************)
(* List Pattern Detector: src/src/list_detector.py                         *)
(***************************************************************************)
\* the bounds attribute "[x1,y1][x2,y2]"
BoundsStr(x1, y1, x2, y2) ==
    LET DigitChar == <<"0", "1", "2", "3", "4", "5", "6", "7", "8", "9">>
        \* str(n) as a sequence of characters
        RECURSIVE Digits(_)
        Digits(n) ==
            IF n < 10 THEN <<DigitChar[n + 1]>>
            ELSE Digits(n \div 10) \o <<DigitChar[(n % 10) + 1]>>
    IN
    <<"[">> \o Digits(x1) \o <<",">> \o Digits(y1) \o <<"]", "[">>
    \o Digits(x2) \o <<",">> \o Digits(y2) \o <<"]">>

\* list_detector._parse_bounds: (0, 0, 0, 0) when the pattern does not match
_parse_bounds_or_zero(b) ==
    LET Groups(m) == IF m.ok THEN m.val ELSE <<0, 0, 0, 0>>
    IN  Groups(_parse_bounds(b))

_get_x_center(v) == (v[1] + v[3]) \div 2

_get_y_center(v) == (v[2] + v[4]) \div 2

\* the sort key of an element along the dominant axis
AxisCenter(e, is_horizontal) ==
    LET Mid(v) == IF is_horizontal THEN _get_x_center(v) ELSE _get_y_center(v)
    IN  Mid(_parse_bounds_or_zero(e.bounds))

RECURSIVE SortByCenter(_, _)
SortByCenter(els, h) ==
    LET \* list.sort is stable: an element goes after those with the same key
        RECURSIVE InsertByCenter(_, _, _)
        InsertByCenter(s, e, across) ==
            IF s = <<>> THEN <<e>>
            ELSE IF AxisCenter(Head(s), across) <= AxisCenter(e, across)
                 THEN <<Head(s)>> \o InsertByCenter(Tail(s), e, across)
                 ELSE <<e>> \o s
    IN
    IF els = <<>> THEN <<>>
    ELSE InsertByCenter(SortByCenter(SubSeq(els, 1, Len(els) - 1), h),
                        els[Len(els)], h)

Max(S) == CHOOSE x \in S : \A y \in S : y <= x

\* a badge word in label.upper(), for the labels of the elements: "NEW!",
\* "Poker Mania", "Play", "Terms", "touch_area", "Earn Cash", "Login",
\* "Login Button" and "Item"
HasBadgeWord(label) == label = "NEW!"
TypeSig(e) ==
    IF e.action = "tap" THEN "tap_area"
    ELSE IF e.type = "text" /\ HasBadgeWord(e.label) THEN "badge"
    ELSE IF e.type = "text" THEN "text"
    ELSE e.type

Smaller(a, b) == IF a < b THEN a ELSE b

\* type_sequence[i:i+pattern_len] with 0-based i
Slice(s, i, len) == SubSeq(s, i + 1, Smaller(i + len, Len(s)))

\* the patterns found, as the set of the repeating prefixes
_find_repeating_patterns(els) ==
    LET \* the pattern lengths for which every later chunk equals the first:
        \* range(2, min(8, len(type_sequence) // 2)) excludes its upper end
        PatternLengths(sigs) ==
            {pl \in 2..(Smaller(8, Len(sigs) \div 2) - 1) :
                \A c \in 1..(Len(sigs) \div pl) :
                    c * pl < Len(sigs) => Slice(sigs, c * pl, pl) = Slice(sigs, 0, pl)}
        sigs == [i \in 1..Len(els) |-> TypeSig(els[i])]
    IN  {Slice(sigs, 0, pl) : pl \in PatternLengths(sigs)}

ListItem(title, els) == [title |-> title, type |-> "list_item", elements |-> els]

_group_by_proximity(els, h) ==
    LET \* len(label)
        LabelLen(label) ==
            CASE label = "NEW!" -> 4 [] label = "Poker Mania" -> 11
              [] label = "Play" -> 4 [] label = "Terms" -> 5
              [] label = "touch_area" -> 10 [] label = "Earn Cash" -> 9
              [] label = "Login" -> 5 [] label = "Login Button" -> 12
              [] OTHER -> 4
        \* the proximity loop from element i on: cur is the item being built (<<>>
        \* for none) and last_pos the position of the previous element
        RECURSIVE ProximityFrom(_, _, _, _, _)
        ProximityFrom(es, i, across, cur, last_pos) ==
            LET At(e, pos) ==
                    IF pos - last_pos > (IF across THEN 200 ELSE 150)
                    THEN cur \o ProximityFrom(es, i + 1, across,
                                              <<ListItem(e.label, <<e>>)>>, pos)
                    ELSE IF cur = <<>> THEN ProximityFrom(es, i + 1, across, cur, pos)
                    ELSE LET it == cur[1]
                             better == e.type = "text"
                                       /\ LabelLen(e.label) > LabelLen(it.title)
                         IN  ProximityFrom(es, i + 1, across,
                                 <<ListItem(IF better THEN e.label ELSE it.title,
                                            Append(it.elements, e))>>, pos)
            IN  IF i > Len(es) THEN cur ELSE At(es[i], AxisCenter(es[i], across))
    IN  ProximityFrom(els, 1, h, <<>>, 0 - 1000)

\* chunks of the longest pattern's length
_group_by_patterns(els, patterns, h) ==
    LET HasGameWord(label) == label = "Poker Mania"
        \* the title of a pattern item: the label of the first text element that is
        \* no badge and names a game
        RECURSIVE PatternTitle(_)
        PatternTitle(item) ==
            IF item = <<>> THEN "Item"
            ELSE IF /\ Head(item).type = "text" /\ ~HasBadgeWord(Head(item).label)
                    /\ HasGameWord(Head(item).label)
                 THEN Head(item).label
                 ELSE PatternTitle(Tail(item))
    IN
    IF patterns = {} THEN _group_by_proximity(els, h)
    ELSE LET pl == Max({Len(p) : p \in patterns})
             count == (Len(els) + pl - 1) \div pl
         IN  [c \in 1..count |->
                 LET item == Slice(els, (c - 1) * pl, pl)
                 IN  ListItem(PatternTitle(item), item)]

\* the list items and the branch that built them
_identify_list_items(els) ==
    LET \* max(positions) - min(positions) of the centers on both axes
        IsHorizontal(es) ==
            LET xs == {AxisCenter(es[i], TRUE) : i \in 1..Len(es)}
                ys == {AxisCenter(es[i], FALSE) : i \in 1..Len(es)}
                spread(S) == Max(S) - (CHOOSE x \in S : \A y \in S : x <= y)
            IN  es # <<>> /\ spread(xs) > spread(ys)
        Items(sorted, patterns, h) ==
            IF patterns # {}
            THEN [items |-> _group_by_patterns(sorted, patterns, h),
                  path |-> "patterns", sorted |-> sorted]
            ELSE [items |-> _group_by_proximity(sorted, h),
                  path |-> "proximity", sorted |-> sorted]
        Sorted(sorted, h) == Items(sorted, _find_repeating_patterns(sorted), h)
        Along(h) == Sorted(SortByCenter(els, h), h)
    IN  Along(IsHorizontal(els))

(***************************************************************************)
(* Clean Tree Parser: src/src/clean_tree_parser.py                         *)
(* A snapshot is the sequence of its <node> elements in document order,    *)
(* each with the position of its parent node (0 under <hierarchy>).        *)
(***************************************************************************)
TreeNode(parent, r, t, d, c, b, en, cl) ==
    [parent |-> parent, rid |-> r, text |-> t, desc |-> d, clickable |-> c,
     bounds |-> b, enabled |-> en, class |-> cl]

ClassHas(cl, word) ==
    LET \* the class names of the snapshots with the lower-cased words the parser
        \* looks for in them
        CleanClassWords ==
            [name \in {"android.widget.TextView", "android.widget.Button",
                     "android.widget.EditText", "android.widget.ImageView",
                     "android.view.View", "android.widget.FrameLayout",
                     "androidx.recyclerview.widget.RecyclerView", ""} |->
                CASE name = "android.widget.TextView" -> {"textview"}
                  [] name = "android.widget.Button" -> {"button"}
                  [] name = "android.widget.EditText" -> {"edittext"}
                  [] name = "android.widget.ImageView" -> {"imageview"}
                  [] name = "androidx.recyclerview.widget.RecyclerView" -> {"recyclerview"}
                  [] name = "android.widget.FrameLayout" -> {"layout"}
                  [] OTHER -> {}]
    IN  word \in CleanClassWords[cl]

_determine_type(cl, clickable) ==
    IF ClassHas(cl, "edittext") THEN "input"
    ELSE IF ClassHas(cl, "button") THEN "button"
    ELSE IF ClassHas(cl, "checkbox") THEN "checkbox"
    ELSE IF ClassHas(cl, "radiobutton") THEN "radio"
    ELSE IF ClassHas(cl, "textview") /\ ~clickable THEN "text"
    ELSE IF ClassHas(cl, "textview") /\ clickable THEN "button"
    ELSE IF ClassHas(cl, "imageview") /\ clickable THEN "button"
    ELSE "element"

\* the label of a node
CleanLabel(n) ==
    LET \* res_id.split("/")[-1].replace("_", " ").replace("-", " ").title(); ""
        \* stands for an id without "/"
        IdTitle ==
            [r \in {"", "id1", "com.app:id/login_button"} |->
                IF r = "com.app:id/login_button" THEN "Login Button" ELSE ""]
        plain == IF Strip(n.text) # "" THEN Strip(n.text) ELSE Strip(n.desc)
        byId  == IF plain = "" /\ n.rid # "" THEN IdTitle[n.rid] ELSE plain
    IN  IF byId = "" /\ IsTrue(n.clickable) THEN "touch_area" ELSE byId

CleanType(n) == _determine_type(n.class, IsTrue(n.clickable))

IsInteractive(n) ==
    CleanType(n) \in {"input", "button", "checkbox", "radio"}
    \/ IsTrue(n.clickable)

\* the node is appended to the element list
Collected(n) ==
    /\ IsTrue(n.enabled)
    /\ CleanLabel(n) # ""
    /\ (IsInteractive(n) \/ CleanType(n) = "text")

\* parent_label inside the call for node k, after the "provides context"
\* test, and as passed to the children of node k
RECURSIVE LabelAt(_, _), LabelBelow(_, _)
LabelAt(tree, k) ==
    LET n == tree[k]
    IN  IF IsTrue(n.enabled) /\ CleanType(n) = "text" /\ ~IsTrue(n.clickable)
           /\ CleanLabel(n) # ""
        THEN CleanLabel(n)
        ELSE LabelBelow(tree, n.parent)
LabelBelow(tree, k) ==
    IF k = 0 THEN ""
    ELSE IF ~IsTrue(tree[k].enabled) THEN LabelBelow(tree, tree[k].parent)
    ELSE IF Collected(tree[k]) /\ IsInteractive(tree[k]) THEN ""
    ELSE LabelAt(tree, k)

_collect_elements(tree) ==
    LET \* is_list: the node is a list container
        IsListClass(cl) ==
            \E w \in {"recyclerview", "listview", "horizontalscrollview", "scrollview"} :
                ClassHas(cl, w)
        \* the in_list flag of an element whose enclosing list container has class pc
        InListOf(pc) ==
            pc # "" /\ \E w \in {"recyclerview", "listview", "scrollview"} : ClassHas(pc, w)
        \* depth of node k: <hierarchy> is at depth 0
        RECURSIVE DepthOf(_, _)
        DepthOf(nodes, k) == IF k = 0 THEN 0 ELSE 1 + DepthOf(nodes, nodes[k].parent)
        \* parent_class as passed to the children of node k (k = 0: <hierarchy>)
        RECURSIVE ClassBelow(_, _)
        ClassBelow(nodes, k) ==
            IF k = 0 THEN ""
            ELSE IF IsListClass(nodes[k].class) THEN nodes[k].class
            ELSE ClassBelow(nodes, nodes[k].parent)
        \* the element dict of node k; action "" stands for None, and src is the
        \* position of the node (the identity of the dict, which the groups share)
        CleanElement(nodes, k) ==
            LET n == nodes[k]
            IN  [label |-> CleanLabel(n), type |-> CleanType(n),
                 parent_context |-> LabelAt(nodes, k), depth |-> DepthOf(nodes, k),
                 bounds |-> n.bounds, class |-> n.class,
                 in_list |-> InListOf(ClassBelow(nodes, n.parent)),
                 action |-> IF CleanType(n) = "input" THEN "type"
                            ELSE IF IsTrue(n.clickable) THEN "tap"
                            ELSE IF CleanType(n) = "text" THEN ""
                            ELSE "interact",
                 src |-> k]
        \* the elements in document order (the pre-order walk appends a node before
        \* its children)
        RECURSIVE CollectFrom(_, _)
        CollectFrom(nodes, k) ==
            IF k > Len(nodes) THEN <<>>
            ELSE IF Collected(nodes[k])
                 THEN <<CleanElement(nodes, k)>> \o CollectFrom(nodes, k + 1)
                 ELSE CollectFrom(nodes, k + 1)
    IN  CollectFrom(tree, 1)

\* a group dict; purpose "" stands for a group without the key
Group(title, type, els, purpose) ==
    [title |-> title, type |-> type, elements |-> els, purpose |-> purpose]

\* clean_tree_parser._parse_bounds: (0, 0, 0, 0) when the pattern does not
\* match
CleanBox(b) == _parse_bounds_or_zero(b)

_bounds_overlap_horizontally(b1, b2) ==
    LET Apart(v1, v2) == v1[3] + 50 < v2[1] \/ v2[3] + 50 < v1[1]
    IN  ~Apart(CleanBox(b1), CleanBox(b2))

Abs(x) == IF x < 0 THEN 0 - x ELSE x

_check_if_related_to_card(elem, cardEls) ==
    /\ elem.bounds # <<>>
    /\ \E c \in 1..Len(cardEls) :
          /\ cardEls[c].bounds # <<>>
          /\ LET Related(eb, cb) ==
                     \/ /\ ~(eb[3] < cb[1] \/ cb[3] < eb[1])
                        /\ ~(eb[4] < cb[2] \/ cb[4] < eb[2])
                     \/ /\ eb[1] <= cb[1] /\ eb[3] >= cb[3]
                        /\ eb[2] <= cb[2] /\ eb[4] >= cb[4]
             IN  Related(CleanBox(elem.bounds), CleanBox(cardEls[c].bounds))

\* the labels of the snapshots with the lower-cased key words that occur in
\* them; no key word occurs across two labels joined by a space
CleanLabelWords ==
    [l \in {"NEW!", "Poker Mania", "touch_area", "Play", "Earn Cash",
            "Login", "Login Button", "Terms", "Item", "Group"} |->
        CASE l = "Poker Mania" -> {"poker"}
          [] l = "Earn Cash" -> {"earn", "cash"}
          [] l \in {"Login", "Login Button"} -> {"login"}
          [] OTHER -> {}]

\* the key words in the labels of the elements joined by spaces
WordsOf(els) == UNION {CleanLabelWords[els[i].label] : i \in 1..Len(els)}

AnyInList(els) == \E i \in 1..Len(els) : els[i].in_list

\* the elements of groups a..b, concatenated
RECURSIVE ElementsOf(_, _, _)
ElementsOf(groups, a, b) ==
    IF a > b THEN <<>>
    ELSE groups[a].elements \o ElementsOf(groups, a + 1, b)

_merge_related_groups(groups) ==
    LET \* label.upper() is one of the badge texts of _merge_related_groups
        IsBadgeText(label) == label = "NEW!"
        \* the groups among i+2 and i+3 with a tap element related to the card
        RelatedAhead(gs, i) ==
            {j \in (i + 2)..Smaller(i + 3, Len(gs)) :
                \E m \in 1..Len(gs[j].elements) :
                    /\ gs[j].elements[m].action = "tap"
                    /\ _check_if_related_to_card(gs[j].elements[m],
                           gs[i].elements \o gs[i + 1].elements)}
        \* the elements of the groups of set J in the order of the groups
        RECURSIVE ElementsIn(_, _, _)
        ElementsIn(gs, J, j) ==
            IF j > Len(gs) THEN <<>>
            ELSE (IF j \in J THEN gs[j].elements ELSE <<>>)
                 \o ElementsIn(gs, J, j + 1)
        Bounded(els) == SelectSeq(els, LAMBDA e : e.bounds # <<>>)
        \* is_card_pattern of the second branch (no label of the snapshots holds a
        \* currency sign); should_merge is computed and not used
        IsCardPattern(cur, next) ==
            \/ WordsOf(cur.elements) \cap {"video", "earn", "cash", "reward"} # {}
            \/ WordsOf(next.elements) \cap {"get", "up to", "bonus", "win"} # {}
            \/ /\ Len(cur.elements) = 1 /\ cur.elements[1].type = "text"
               /\ \E m \in 1..Len(next.elements) : next.elements[m].type = "text"
        \* a tap element in groups i..i+2 lies in the horizontal area of an element
        \* of the current group
        HasRelatedButton(gs, i) ==
            \E j \in i..Smaller(i + 2, Len(gs)) :
                \E m \in 1..Len(gs[j].elements) :
                    LET e == gs[j].elements[m]
                    IN  /\ e.action = "tap" /\ e.bounds # <<>>
                        /\ \E c \in 1..Len(Bounded(gs[i].elements)) :
                              _bounds_overlap_horizontally(
                                  Bounded(gs[i].elements)[c].bounds, e.bounds)
        \* what the card takes from group g: all of g's elements once for each
        \* element of g that lies in the horizontal area of the current group
        RECURSIVE CardTakes(_, _, _)
        CardTakes(curEls, g, m) ==
            IF m > Len(g.elements) THEN <<>>
            ELSE (IF /\ g.elements[m].bounds # <<>>
                     /\ \E c \in 1..Len(Bounded(curEls)) :
                           _bounds_overlap_horizontally(Bounded(curEls)[c].bounds,
                                                        g.elements[m].bounds)
                  THEN g.elements ELSE <<>>)
                 \o CardTakes(curEls, g, m + 1)
        \* the while loop of _merge_related_groups from group i on
        RECURSIVE MergeFrom(_, _)
        MergeFrom(gs, i) ==
            IF i > Len(gs) THEN <<>>
            ELSE
            LET cur == gs[i]
                is_badge == Len(cur.elements) = 1 /\ IsBadgeText(cur.elements[1].label)
            IN  IF (is_badge \/ AnyInList(cur.elements)) /\ i + 1 <= Len(gs)
                THEN LET Card(J) ==
                             <<Group(gs[i + 1].title, "game_card",
                                     cur.elements \o gs[i + 1].elements
                                        \o ElementsIn(gs, J, 1),
                                     "game")>>
                             \o MergeFrom(gs, i + 2 + Cardinality(J))
                     IN  Card(RelatedAhead(gs, i))
                ELSE IF /\ i + 1 <= Len(gs)
                        /\ IsCardPattern(cur, gs[i + 1])
                        /\ HasRelatedButton(gs, i)
                THEN LET stop == Smaller(i + 2, Len(gs))
                         taken == CardTakes(cur.elements, gs[i + 1], 1)
                                  \o (IF stop > i + 1
                                      THEN CardTakes(cur.elements, gs[i + 2], 1)
                                      ELSE <<>>)
                     IN  <<Group(cur.title, "card", cur.elements \o taken,
                                 "promotional")>>
                         \o MergeFrom(gs, stop + 1)
                ELSE <<cur>> \o MergeFrom(gs, i + 1)
    IN  IF Len(groups) < 2 THEN groups ELSE MergeFrom(groups, 1)

\* list_detector.detect_and_group_list_items
detect_and_group_list_items(els) ==
    LET listed == SelectSeq(els, LAMBDA e : e.in_list)
        others == SelectSeq(els, LAMBDA e : ~e.in_list)
    IN  IF listed = <<>>
        THEN <<[title |-> "", type |-> "group", elements |-> els]>>
        ELSE (IF others # <<>>
              THEN <<[title |-> "", type |-> "non_list_group",
                      elements |-> others]>>
              ELSE <<>>)
             \o _identify_list_items(listed).items

_is_game_item(els) ==
    \E i \in 1..Len(els) : "poker" \in CleanLabelWords[els[i].label]

FirstOf(s) == IF s = <<>> THEN <<>> ELSE <<s[1]>>

_split_list_items(group) ==
    LET \* label.upper() is one of the badge texts of _split_list_items
        IsSplitBadge(label) == label = "NEW!"
        CleanXCenter(b) == _get_x_center(CleanBox(b))
        \* the card _split_list_items builds around one game title
        GameGroup(grp, title, badges, touches, others) ==
            LET Above(v, tb) == v[4] < tb[2]
                Covers(v, tb) == v[2] <= tb[2] /\ v[4] >= tb[4]
                Around(tb, tx) ==
                    LET badge == FirstOf(SelectSeq(badges, LAMBDA b :
                                     /\ Abs(CleanXCenter(b.bounds) - tx) < 100
                                     /\ Above(CleanBox(b.bounds), tb)))
                        touch == FirstOf(SelectSeq(touches, LAMBDA t :
                                     /\ _bounds_overlap_horizontally(title.bounds,
                                                                     t.bounds)
                                     /\ Covers(CleanBox(t.bounds), tb)))
                        near  == SelectSeq(others, LAMBDA e :
                                     Abs(CleanXCenter(e.bounds) - tx) < 100)
                    IN  Group(title.label, "game_card",
                              <<title>> \o badge \o touch \o near,
                              IF grp.purpose = "" THEN "game" ELSE grp.purpose)
            IN  Around(CleanBox(title.bounds), CleanXCenter(title.bounds))
        els == group.elements
    IN  IF AnyInList(els)
        THEN LET Items(lgs) ==
                     [i \in 1..Len(lgs) |->
                        IF lgs[i].type = "list_item"
                        THEN Group(lgs[i].title,
                                   IF _is_game_item(lgs[i].elements)
                                   THEN "game_card" ELSE "list_item",
                                   lgs[i].elements,
                                   IF _is_game_item(lgs[i].elements) THEN "game"
                                   ELSE IF group.purpose = "" THEN "info"
                                   ELSE group.purpose)
                        ELSE Group(group.title, group.type, lgs[i].elements,
                                   IF group.purpose = "" THEN "info"
                                   ELSE group.purpose)]
             IN  Items(detect_and_group_list_items(els))
        ELSE LET isText(e) == e.type = "text"
                 titles  == SelectSeq(els, LAMBDA e :
                               /\ isText(e) /\ ~IsSplitBadge(e.label)
                               /\ "poker" \in CleanLabelWords[e.label])
                 badges  == SelectSeq(els, LAMBDA e :
                               isText(e) /\ IsSplitBadge(e.label))
                 touches == SelectSeq(els, LAMBDA e :
                               ~isText(e) /\ e.action = "tap")
                 others  == SelectSeq(els, LAMBDA e :
                               \/ /\ isText(e) /\ ~IsSplitBadge(e.label)
                                  /\ "poker" \notin CleanLabelWords[e.label]
                               \/ ~isText(e) /\ e.action # "tap")
             IN  IF Len(titles) <= 1 THEN <<group>>
                 ELSE [i \in 1..Len(titles) |->
                          GameGroup(group, titles[i], badges, touches, others)]

\* the purpose _identify_group_purpose leaves in the group
_identify_group_purpose(group) ==
    LET words == CleanLabelWords[group.title] \cup WordsOf(group.elements)
        has(S) == words \cap S # {}
        has_inputs == \E i \in 1..Len(group.elements) :
                         group.elements[i].type = "input"
        has_button == \E i \in 1..Len(group.elements) :
                         group.elements[i].type = "button"
    IN  IF group.purpose = "promotional" THEN "promotional"
        ELSE IF has({"cash", "earn", "money", "reward", "bonus", "win"})
        THEN "promotional"
        ELSE IF has({"sign up", "signup", "register"}) THEN "signup"
        ELSE IF has({"login", "sign in"}) THEN "login"
        ELSE IF has({"mobile", "phone"}) THEN "phone_entry"
        ELSE IF has({"otp", "verification"}) THEN "verification"
        ELSE IF has_inputs /\ has_button THEN "form"
        ELSE IF has_button /\ ~has_inputs THEN "actions"
        ELSE "info"

_group_related_elements(els) ==
    LET \* groups + [current_group] when there is one and it has elements
        Saved(groups, cur) ==
            IF cur # <<>> /\ cur[1].elements # <<>> THEN groups \o cur ELSE groups
        WithElement(g, e) == [g EXCEPT !.elements = Append(g.elements, e)]
        \* the loop of _group_related_elements from element i on: cur is
        \* current_group (<<>> for None), lastCtx is last_parent_context and grouped
        \* holds the elements marked "grouped"
        RECURSIVE GroupLoop(_, _, _, _, _, _)
        GroupLoop(es, i, groups, cur, lastCtx, grouped) ==
            IF i > Len(es) THEN Saved(groups, cur)
            ELSE
            LET e  == es[i]
                pc == e.parent_context
            IN  IF pc # "" /\ pc # lastCtx
                THEN GroupLoop(es, i + 1, Saved(groups, cur),
                               <<Group(pc, "form_group", <<e>>, "")>>, pc, grouped)
                ELSE IF pc = "" /\ e.type = "button" /\ cur # <<>>
                THEN GroupLoop(es, i + 1, Append(groups, WithElement(cur[1], e)),
                               <<>>, "", grouped)
                ELSE IF cur # <<>>
                THEN GroupLoop(es, i + 1, groups, <<WithElement(cur[1], e)>>, lastCtx,
                               grouped)
                ELSE IF /\ groups # <<>> /\ e.type \in {"button", "input"}
                        /\ Len(groups[Len(groups)].elements) < 5
                THEN GroupLoop(es, i + 1,
                               [groups EXCEPT ![Len(groups)] = WithElement(@, e)],
                               cur, lastCtx, grouped)
                ELSE IF /\ i > 1 /\ es[i - 1].type = "text"
                        /\ e.type \in {"button", "input"}
                        /\ es[i - 1].src \notin grouped
                THEN GroupLoop(es, i + 1,
                               Append(groups, Group(es[i - 1].label, "labeled_action",
                                                    <<es[i - 1], e>>, "")),
                               cur, lastCtx, grouped \cup {es[i - 1].src})
                ELSE GroupLoop(es, i + 1,
                               Append(groups, Group(e.label, "single", <<e>>, "")),
                               cur, lastCtx, grouped)
        \* the post-processing loop: the groups after splitting, in order
        RECURSIVE SplitAll(_)
        SplitAll(groups) ==
            IF groups = <<>> THEN <<>>
            ELSE (IF Head(groups).type = "game_card"
                  THEN _split_list_items(Head(groups)) ELSE <<Head(groups)>>)
                 \o SplitAll(Tail(groups))
        \* the id an element dict ends with: the groups share the dicts, so the
        \* last group that holds the element decides
        ElementId(groups, src) ==
            LET holders == {g \in 1..Len(groups) :
                               \E m \in 1..Len(groups[g].elements) :
                                   groups[g].elements[m].src = src}
                g == Max(holders)
                m == CHOOSE m \in 1..Len(groups[g].elements) :
                        /\ groups[g].elements[m].src = src
                        /\ \A k \in 1..(m - 1) : groups[g].elements[k].src # src
            IN  (g - 1) * 100 + (m - 1)
        \* the elements of a final group with their ids
        WithIds(groups, g) ==
            [m \in 1..Len(groups[g].elements) |->
                [id |-> ElementId(groups, groups[g].elements[m].src)]
                @@ groups[g].elements[m]]
        Final(split) ==
            [g \in 1..Len(split) |->
                Group(split[g].title, split[g].type, WithIds(split, g),
                      _identify_group_purpose(split[g]))]
    IN  Final(SplitAll(_merge_related_groups(
                  GroupLoop(els, 1, <<>>, <<>>, "", {}))))

\* the actionable elements of all groups with the title and purpose of
\* their group
RECURSIVE _create_flat_list(_)
_create_flat_list(groups) ==
    IF groups = <<>> THEN <<>>
    ELSE LET g == Head(groups)
             acts == SelectSeq(g.elements, LAMBDA e : e.action # "")
         IN  [m \in 1..Len(acts) |->
                 [id |-> acts[m].id, label |-> acts[m].label,
                  action |-> acts[m].action, group |-> g.title,
                  group_purpose |-> g.purpose]]
             \o _create_flat_list(Tail(groups))

parse_clean_tree(tree) ==
    LET RECURSIVE TotalOf(_)
        TotalOf(groups) ==
            IF groups = <<>> THEN 0
            ELSE Len(Head(groups).elements) + TotalOf(Tail(groups))
        Structure(grouped) ==
            [groups |-> grouped, flat_list |-> _create_flat_list(grouped),
             total |-> TotalOf(grouped)]
    IN  Structure(_group_related_elements(_collect_elements(tree)))

(***************************************************************************)
(* Deduplicating Tree Parser: src/src/dedup_parser.py                      *)
(* The document is its root (a <hierarchy> without attributes, or the      *)
(* first <node>) and the sequence of its <node> elements in document       *)
(* order, each with the position of its parent (0 under <hierarchy>).      *)
(***************************************************************************)
\* dedup_parser._get_element_type
DedupType(cl, clickable) ==
    IF ClassHas(cl, "edittext") THEN "input"
    ELSE IF ClassHas(cl, "button") THEN "button"
    ELSE IF ClassHas(cl, "textview") /\ clickable THEN "button"
    ELSE IF ClassHas(cl, "textview") THEN "text"
    ELSE IF ClassHas(cl, "checkbox") THEN "checkbox"
    ELSE IF ClassHas(cl, "switch") THEN "switch"
    ELSE IF ClassHas(cl, "recyclerview") \/ ClassHas(cl, "listview") THEN "list"
    ELSE IF ClassHas(cl, "layout") \/ ClassHas(cl, "viewgroup") THEN "container"
    ELSE "element"

\* visible_text.lower() of the texts of the snapshots
Lower(t) == IF t = "Name" THEN "name" ELSE IF t = "OK" THEN "ok" ELSE t

VisibleText(n) == IF Strip(n.text) # "" THEN Strip(n.text) ELSE Strip(n.desc)

\* _build_dedup_node on node k with the bookkeeping st: the node built
\* (<<>> for None) and the bookkeeping afterwards
RECURSIVE BuildNode(_, _, _), BuildKids(_, _, _, _)
BuildNode(tree, k, st) ==
    LET \* f"[{elem_type}]"
        Placeholder(type) ==
            CASE type = "button" -> "[button]" [] type = "input" -> "[input]"
              [] type = "container" -> "[container]" [] type = "list" -> "[list]"
              [] type = "text" -> "[text]" [] OTHER -> "[element]"
        \* the positions of the children of node k, in document order
        KidsOf(nodes, pos) ==
            SelectSeq([j \in 1..Len(nodes) |-> j], LAMBDA j : nodes[j].parent = pos)
        \* a node of the deduplicated tree; action "" and children <<>> stand for
        \* absent keys; clickable and src (the position of the source node) are not
        \* part of the output
        DedupNode(id, type, text, action, children, clickable, src) ==
            [id |-> id, type |-> type, text |-> text, action |-> action,
             children |-> children, clickable |-> clickable, src |-> src]
        \* the later occurrence is clickable and the earlier was not, or is an input
        \* and the earlier was not
        Supersedes(clickable, type, prev) ==
            (clickable /\ ~prev.clickable) \/ (type = "input" /\ prev.type # "input")
        n         == tree[k]
        clickable == IsTrue(n.clickable)
        vt        == VisibleText(n)
        type      == DedupType(n.class, clickable)
        key       == Lower(vt)
        kept      == [seen |-> IF vt # ""
                               THEN [st.seen EXCEPT ![key] =
                                        <<[clickable |-> clickable,
                                           type |-> type]>>]
                               ELSE st.seen,
                      next |-> st.next + 1]
        action    == IF clickable \/ type \in {"input", "button"}
                     THEN (IF type = "input" THEN "type" ELSE "tap") ELSE ""
    IN  IF ~IsTrue(n.enabled) THEN [node |-> <<>>, st |-> st]
        ELSE IF type \in {"container", "layout", "list"} /\ vt = ""
                /\ ~clickable
        THEN LET ch == BuildKids(tree, KidsOf(tree, k), 1, st)
             IN  IF Len(ch.nodes) = 1
                 THEN [node |-> <<ch.nodes[1]>>, st |-> ch.st]
                 ELSE IF Len(ch.nodes) > 1
                 THEN [node |-> <<DedupNode(ch.st.next, "group", "", "",
                                            ch.nodes, FALSE, k)>>,
                       st |-> ch.st]
                 ELSE [node |-> <<>>, st |-> ch.st]
        ELSE IF vt # "" /\ st.seen[key] # <<>>
                /\ ~Supersedes(clickable, type, st.seen[key][1])
        THEN [node |-> <<>>, st |-> st]
        ELSE IF vt = "" /\ ~clickable /\ type # "input"
        THEN [node |-> <<>>, st |-> st]
        ELSE IF ~clickable \/ type = "container"
        THEN LET ch == BuildKids(tree, KidsOf(tree, k), 1, kept)
             IN  [node |-> <<DedupNode(st.next, type,
                                       IF vt # "" THEN vt ELSE Placeholder(type),
                                       action, ch.nodes, clickable, k)>>,
                  st |-> ch.st]
        ELSE [node |-> <<DedupNode(st.next, type,
                                   IF vt # "" THEN vt ELSE Placeholder(type),
                                   action, <<>>, clickable, k)>>,
              st |-> kept]
BuildKids(tree, kids, i, st) ==
    IF i > Len(kids) THEN [nodes |-> <<>>, st |-> st]
    ELSE LET first == BuildNode(tree, kids[i], st)
             rest  == BuildKids(tree, kids, i + 1, first.st)
         IN  [nodes |-> first.node \o rest.nodes, st |-> rest.st]

\* process_node on node n with the list `section` being list number ref:
\* lists holds the contents of every list created so far and sections the
\* numbers of the lists appended to `sections` (the same list can be
\* appended twice, and a list keeps changing after it was appended); the
\* value process_node returns is used for the outermost call only
RECURSIVE ProcessNode(_, _, _), ProcessKids(_, _, _, _)
ProcessNode(n, ref, fl) ==
    LET \* the element process_node appends to a section
        CleanNodeOf(node) ==
            [id |-> node.id, text |-> node.text, type |-> node.type, action |-> node.action,
             clickable |-> node.clickable, src |-> node.src]
    IN
    IF n.type = "group"
    THEN IF fl.lists[ref] # <<>>
         THEN LET opened == [lists |-> Append(fl.lists, <<>>),
                             sections |-> Append(fl.sections, ref),
                             ret |-> Len(fl.lists) + 1]
              IN  [ProcessKids(n.children, 1, opened.ret, opened)
                      EXCEPT !.ret = opened.ret]
         ELSE [ProcessKids(n.children, 1, ref, fl) EXCEPT !.ret = ref]
    ELSE LET added == [fl EXCEPT !.lists[ref] = Append(@, CleanNodeOf(n))]
         IN  [ProcessKids(n.children, 1, ref, added) EXCEPT !.ret = ref]
ProcessKids(kids, i, ref, fl) ==
    IF i > Len(kids) THEN fl
    ELSE ProcessKids(kids, i + 1, ref, ProcessNode(kids[i], ref, fl))

\* _might_be_label_for on the texts of the snapshots: "name" is a label
\* word, and no text contains another one except itself in another case
_might_be_label_for(text, input_text) ==
    Lower(text) = "name" \/ Lower(input_text) = Lower(text)

_organize_by_function(els) ==
    LET \* the form of one input: the first text that might be its label; no action
        \* text of the snapshots holds continue/submit/next/done
        FormOf(inp, texts) ==
            [input |-> inp,
             label |-> FirstOf(SelectSeq(texts, LAMBDA t :
                           _might_be_label_for(t.text, inp.text))),
             submit |-> <<>>]
        inputs  == SelectSeq(els, LAMBDA e : e.action = "type")
        actions == SelectSeq(els, LAMBDA e : e.action = "tap")
        texts   == SelectSeq(els, LAMBDA e : e.action = "" /\ e.type = "text")
    IN  [texts |-> texts, inputs |-> inputs, actions |-> actions,
         forms |-> [i \in 1..Len(inputs) |-> FormOf(inputs[i], texts)]]

_create_clean_structure(root) ==
    LET \* the "Merge small sections" loop from section i on: cur is the number of
        \* the list current_merge (0 for the empty list it starts as)
        RECURSIVE MergeSections(_, _, _, _, _)
        MergeSections(lists, sections, i, cur, merged) ==
            IF i > Len(sections)
            THEN [lists |-> lists,
                  merged |-> IF cur # 0 /\ lists[cur] # <<>>
                             THEN Append(merged, cur) ELSE merged]
            ELSE LET s == sections[i]
                 IN  IF Len(lists[s]) <= 2 /\ cur # 0 /\ lists[cur] # <<>>
                     THEN MergeSections([lists EXCEPT ![cur] = @ \o lists[s]],
                                        sections, i + 1, cur, merged)
                     ELSE MergeSections(lists, sections, i + 1, s,
                                        IF cur # 0 /\ lists[cur] # <<>>
                                        THEN Append(merged, cur) ELSE merged)
        \* the elements of the lists numbered refs, concatenated
        RECURSIVE Flattened(_, _)
        Flattened(lists, refs) ==
            IF refs = <<>> THEN <<>>
            ELSE lists[Head(refs)] \o Flattened(lists, Tail(refs))
        start  == [lists |-> <<<<>>>>, sections |-> <<>>, ret |-> 1]
        fl     == ProcessNode(root, 1, start)
        all    == IF fl.lists[fl.ret] # <<>>
                  THEN Append(fl.sections, fl.ret) ELSE fl.sections
        m      == MergeSections(fl.lists, all, 1, 0, <<>>)
        flat   == Flattened(m.lists, m.merged)
    IN  [screen |-> _organize_by_function(flat), total |-> Len(flat)]

\* parse_dedup_tree on a document with the given root
parse_dedup_tree(root, tree) ==
    LET DedupKeys == {"name", "ok"}
        \* seen_texts and element_id[0] at the start of the traversal
        NoneSeen == [seen |-> [key \in DedupKeys |-> <<>>], next |-> 0]
        \* the fallback loop over //node from node k on: seen holds the lower-cased
        \* texts taken so far; a node without the enabled attribute counts as
        \* enabled here
        RECURSIVE FallbackFrom(_, _, _, _)
        FallbackFrom(nodes, k, seen, count) ==
            IF k > Len(nodes) THEN <<>>
            ELSE LET n    == nodes[k]
                     vt   == VisibleText(n)
                     type == DedupType(n.class, IsTrue(n.clickable))
                 IN  IF n.enabled \in {"true", ""} /\ vt # "" /\ Lower(vt) \notin seen
                     THEN <<[id |-> count, text |-> vt, type |-> type,
                             action |-> IF IsTrue(n.clickable) \/ type = "input"
                                        THEN (IF type = "input" THEN "type" ELSE "tap")
                                        ELSE "",
                             clickable |-> IsTrue(n.clickable), src |-> k]>>
                          \o FallbackFrom(nodes, k + 1, seen \cup {Lower(vt)}, count + 1)
                     ELSE FallbackFrom(nodes, k + 1, seen, count)
        built == IF root = "node" /\ tree # <<>>
                 THEN BuildNode(tree, 1, NoneSeen).node ELSE <<>>
    IN  IF built = <<>>
        THEN LET all == FallbackFrom(tree, 1, {}, 0)
             IN  [screen |-> _organize_by_function(all), total |-> Len(all)]
        ELSE _create_clean_structure(built[1])

(***************************************************************************)
(* The parsers on bounded snapshots                                        *)
(***************************************************************************)
\* a <node> with the attributes the parsers read besides the identifying
\* ones: enabled and the class name
UiNode(r, t, d, c, b, en, cl) ==
    [rid |-> r, text |-> t, desc |-> d, clickable |-> c, bounds |-> b,
     enabled |-> en, class |-> cl]

ParserInput(k, tr) == [kind |-> k, tree |-> tr]

InitParsers ==
    LET \* values of a boolean attribute: the two the platform writes, one in
        \* another case, and "" for an attribute that is absent
        BoolAttrs == {"true", "false", "TRUE", ""}
        ParseNodes ==
            {UiNode(r, t, d, c, BoundsA, en, "android.widget.TextView") :
                r \in {"", "id1"}, t \in {"", "OK"}, d \in {"", "d1"},
                c \in BoolAttrs, en \in {"true", "false"}}
        ParserInputs ==
            {ParserInput("parse", tr) : tr \in SeqsUpTo(ParseNodes, MaxNodes)}
    IN
    /\ file = NoFile
    /\ last = NoCall
    /\ input \in ParserInputs
    /\ json = [n \in JsonFiles |-> NoJson]

\* parser.parse applied to the input snapshot
FnParse ==
    /\ Idle
    /\ input.kind = "parse"
    /\ last' = [NoCall EXCEPT !.op = "parse", !.out = parse(input.tree)]
    /\ UNCHANGED <<file, input, json>>

SpecParsers == InitParsers /\ [][FnParse]_vars

Bounds19x40 == <<"[", "0", ",", "0", "]", "[", "1", "9", ",", "4", "0", "]">>
InitMinimal ==
    LET \* bounds attributes around the 20px threshold: exactly 20 on both sides,
        \* 19 wide, and 19 high followed by a stray character (the anchored match
        \* still succeeds)
        Bounds20x20 == <<"[", "0", ",", "0", "]", "[", "2", "0", ",", "2", "0", "]">>
        Bounds40x19 ==
            <<"[", "0", ",", "0", "]", "[", "4", "0", ",", "1", "9", "]", "x">>
        \* the text of the node at each position of a snapshot: the sixth node
        \* repeats the text of the first
        PositionTexts == <<"A", "B", "C", "D", "E", "A", "F", "G">>
        \* what a node can be besides its text: a label of one of five bounds
        \* attributes, or a clickable button
        MinimalVariants ==
            {"20x20", "19x40", "40x19", "malformed", "none", "button"}
        VariantNode(t, v) ==
            IF v = "button"
            THEN UiNode("id1", t, "", "true", Bounds20x20, "true",
                        "android.widget.Button")
            ELSE UiNode("", t, "", "false",
                        CASE v = "20x20" -> Bounds20x20 [] v = "19x40" -> Bounds19x40
                          [] v = "40x19" -> Bounds40x19 [] v = "malformed" -> BoundsBad
                          [] OTHER -> BoundsNone,
                        "true", "android.widget.TextView")
        \* the snapshot of k nodes whose i-th node is variant c[i]
        MinimalTree(k, c) == [i \in 1..k |-> VariantNode(PositionTexts[i], c[i])]
    IN
    /\ file = NoFile
    /\ last = NoCall
    /\ \E k \in 0..MaxMinimalNodes : \E c \in [1..k -> MinimalVariants] :
          input = ParserInput("minimal", MinimalTree(k, c))
    /\ json = [n \in JsonFiles |-> NoJson]

\* parser.parse_minimal_for_llm applied to the input snapshot
FnMinimal ==
    /\ Idle
    /\ input.kind = "minimal"
    /\ last' = [NoCall EXCEPT !.op = "parse_minimal_for_llm",
                              !.out = parse_minimal_for_llm(input.tree)]
    /\ UNCHANGED <<file, input, json>>

SpecMinimal == InitMinimal /\ [][FnMinimal]_vars

InitList ==
    LET \* what an element of a list can be: a tap area, a game title, a badge or
        \* another text
        ListKinds == {"tap", "title", "badge", "text"}
        KindElement(kind, b) ==
            CASE kind = "tap" ->
                   [type |-> "button", action |-> "tap", label |-> "Play", bounds |-> b]
              [] kind = "title" ->
                   [type |-> "text", action |-> "", label |-> "Poker Mania", bounds |-> b]
              [] kind = "badge" ->
                   [type |-> "text", action |-> "", label |-> "NEW!", bounds |-> b]
              [] OTHER ->
                   [type |-> "text", action |-> "", label |-> "Terms", bounds |-> b]
        \* where the elements sit: one below the other 100px or 300px apart, from
        \* the bottom up, or side by side 300px apart
        ListLayouts == {"down100", "down300", "up100", "across300"}
        LayoutBounds(lay, i) ==
            CASE lay = "down100" -> BoundsStr(0, 100 * i, 100, 100 * i + 50)
              [] lay = "down300" -> BoundsStr(0, 300 * i, 100, 300 * i + 50)
              [] lay = "up100" ->
                   BoundsStr(0, 100 * (MaxListLen + 2 - i), 100,
                             100 * (MaxListLen + 2 - i) + 50)
              [] OTHER -> BoundsStr(300 * i, 0, 300 * i + 50, 100)
        \* the list-flagged elements in document order
        ListElements(k, c, lay) ==
            [i \in 1..k |-> KindElement(c[i], LayoutBounds(lay, i))]
    IN
    /\ file = NoFile
    /\ last = NoCall
    /\ \E k \in 1..MaxListLen : \E c \in [1..k -> ListKinds] :
          \E lay \in ListLayouts :
             input = ParserInput("list", ListElements(k, c, lay))
    /\ json = [n \in JsonFiles |-> NoJson]

\* list_detector._identify_list_items applied to the input elements
FnList ==
    /\ Idle
    /\ input.kind = "list"
    /\ LET Identified(r) ==
               last' = [NoCall EXCEPT !.op = "_identify_list_items",
                                      !.nodes = r.sorted, !.path = r.path,
                                      !.out = r.items]
       IN  Identified(_identify_list_items(input.tree))
    /\ UNCHANGED <<file, input, json>>

SpecList == InitList /\ [][FnList]_vars

InitClean ==
    LET \* what a node of a card screen can be: a badge, a game title, a tap area
        \* over the card, a tap area elsewhere, a button, an offer text
        CleanVariants == {"badge", "title", "tap", "tapaway", "button", "offer"}
        \* the box of the i-th label of a screen, 200 wide and 50 high, 60px below
        \* the one before
        RowBounds(i) == BoundsStr(0, 60 * i, 200, 60 * i + 50)
        \* the tap area over the rows, and the one below them to the right
        CardBounds == BoundsStr(0, 0, 300, 600)
        AwayBounds == BoundsStr(600, 2000, 700, 2100)
        CleanNode(v, parent, i) ==
            CASE v = "badge" ->
                   TreeNode(parent, "", "NEW!", "", "false", RowBounds(i), "true",
                            "android.widget.TextView")
              [] v = "title" ->
                   TreeNode(parent, "", "Poker Mania", "", "false", RowBounds(i),
                            "true", "android.widget.TextView")
              [] v = "tap" ->
                   TreeNode(parent, "", "", "", "true", CardBounds, "true",
                            "android.view.View")
              [] v = "tapaway" ->
                   TreeNode(parent, "", "", "", "true", AwayBounds, "true",
                            "android.view.View")
              [] v = "button" ->
                   TreeNode(parent, "id1", "Play", "", "true", RowBounds(i), "true",
                            "android.widget.Button")
              [] OTHER ->
                   TreeNode(parent, "", "Earn Cash", "", "false", RowBounds(i),
                            "true", "android.widget.TextView")
        \* the nodes directly under <hierarchy>, or under a list container
        CleanShapes == {"flat", "list"}
        CleanTree(shape, k, c) ==
            IF shape = "flat"
            THEN [i \in 1..k |-> CleanNode(c[i], 0, i)]
            ELSE <<TreeNode(0, "", "", "", "false", CardBounds, "true",
                            "androidx.recyclerview.widget.RecyclerView")>>
                 \o [i \in 1..k |-> CleanNode(c[i], 1, i)]
    IN
    /\ file = NoFile
    /\ last = NoCall
    /\ \E k \in 1..MaxCleanNodes : \E c \in [1..k -> CleanVariants] :
          \E shape \in CleanShapes :
             input = [kind |-> "clean", tree |-> CleanTree(shape, k, c),
                      shape |-> shape, variants |-> c]
    /\ json = [n \in JsonFiles |-> NoJson]

\* clean_tree_parser.parse_clean_tree applied to the input snapshot;
\* all_elements is its list after the first pass
FnClean ==
    /\ Idle
    /\ input.kind = "clean"
    /\ last' = [NoCall EXCEPT !.op = "parse_clean_tree",
                              !.all_elements = _collect_elements(input.tree),
                              !.out = <<parse_clean_tree(input.tree)>>]
    /\ UNCHANGED <<file, input, json>>

SpecClean == InitClean /\ [][FnClean]_vars

InitDedup ==
    LET \* the nodes of the dedup snapshots: a text, the same text in lower case, a
        \* clickable text, an input holding the text, a clickable node without
        \* label, and a container
        DedupVariants == {"text", "lower", "button", "input", "tap", "box"}
        DedupLeaf(v, parent) ==
            CASE v = "text" ->
                   TreeNode(parent, "", "Name", "", "false", BoundsA, "true",
                            "android.widget.TextView")
              [] v = "lower" ->
                   TreeNode(parent, "", "name", "", "false", BoundsA, "true",
                            "android.widget.TextView")
              [] v = "button" ->
                   TreeNode(parent, "", "Name", "", "true", BoundsA, "true",
                            "android.widget.TextView")
              [] v = "input" ->
                   TreeNode(parent, "", "Name", "", "false", BoundsA, "true",
                            "android.widget.EditText")
              [] v = "tap" ->
                   TreeNode(parent, "", "", "", "true", BoundsA, "true",
                            "android.view.View")
              [] OTHER ->
                   TreeNode(parent, "", "", "", "false", BoundsA, "true",
                            "android.widget.FrameLayout")
        \* the document root: <hierarchy>, which has no attributes, or an enabled
        \* container <node>
        DedupRoots == {"hierarchy", "node"}
        \* where node i hangs: under the root, or in the container open at the node
        \* before it (that node if it is a container, else its parent)
        DedupPlaces == {"root", "box"}
        \* the position of the parent of node i of k nodes of variants c at the
        \* places u, the root being at position base
        RECURSIVE DedupParent(_, _, _, _)
        DedupParent(c, u, i, base) ==
            IF i = 1 \/ u[i] = "root" THEN base
            ELSE IF c[i - 1] = "box" THEN base + i - 1
            ELSE DedupParent(c, u, i - 1, base)
        \* the snapshot with root r, k nodes of variants c at the places u
        DedupTree(r, k, c, u) ==
            LET base  == IF r = "node" THEN 1 ELSE 0
                nodes == [i \in 1..k |-> DedupLeaf(c[i], DedupParent(c, u, i, base))]
            IN  IF r = "node" THEN <<DedupLeaf("box", 0)>> \o nodes ELSE nodes
    IN
    /\ file = NoFile
    /\ last = NoCall
    /\ \E r \in DedupRoots : \E k \in 0..MaxDedupNodes :
          \E c \in [1..k -> DedupVariants] : \E u \in [1..k -> DedupPlaces] :
             input = [kind |-> "dedup", root |-> r,
                      tree |-> DedupTree(r, k, c, u)]
    /\ json = [n \in JsonFiles |-> NoJson]

\* dedup_parser.parse_dedup_tree applied to the input snapshot
FnDedup ==
    /\ Idle
    /\ input.kind = "dedup"
    /\ last' = [NoCall EXCEPT !.op = "parse_dedup_tree",
                              !.out = <<parse_dedup_tree(input.root,
                                                         input.tree)>>]
    /\ UNCHANGED <<file, input, json>>

SpecDedup == InitDedup /\ [][FnDedup]_vars

(***************************************************************************)
(* The bounds parsers on bounded strings                                   *)
(***************************************************************************)
InitBounds ==
    LET \* coordinates of one, two and three digits
        Coordinates == {0, 7, 100, 200, 300, 400}
        \* how the text relates to the pattern: the pattern itself, the pattern
        \* followed by more text, and texts that do not start with it
        BoundsShapes ==
            {"exact", "followed", "preceded", "unopened", "negative", "empty",
             "spaced", "half"}
        Shaped(shape, s) ==
            CASE shape = "exact" -> s
              [] shape = "followed" -> s \o <<"x">>
              [] shape = "preceded" -> <<" ">> \o s
              [] shape = "unopened" -> Tail(s)
              [] shape = "negative" -> <<"[", "-">> \o Tail(s)
              [] shape = "empty" -> <<"[", ",">> \o Tail(s)
              [] shape = "spaced" -> <<"[", " ">> \o Tail(s)
              [] OTHER -> SubSeq(s, 1, Len(s) \div 2)
    IN
    /\ file = NoFile
    /\ last = NoCall
    /\ \E x1, y1, x2, y2 \in Coordinates : \E shape \in BoundsShapes :
          input = [kind |-> "bounds", shape |-> shape, nums |-> <<x1, y1, x2, y2>>,
                   tree |-> Shaped(shape, BoundsStr(x1, y1, x2, y2))]
    /\ json = [n \in JsonFiles |-> NoJson]

\* _parse_bounds applied to the input text, and the center tap_node and
\* parse_for_llm compute from its result
FnBounds ==
    /\ Idle
    /\ input.kind = "bounds"
    /\ LET Parsed(m) ==
               last' = [NoCall EXCEPT !.op = "_parse_bounds",
                                      !.result = IF m.ok THEN "ok" ELSE "InvalidInput",
                                      !.out = m.val,
                                      !.tap = IF m.ok THEN Center(m.val) ELSE <<>>]
       IN  Parsed(_parse_bounds(input.tree))
    /\ UNCHANGED <<file, input, json>>

SpecBounds == InitBounds /\ [][FnBounds]_vars

(***************************************************************************)
(* The grouping post-pass of parse_minimal_for_llm on bounded snapshots    *)
(***************************************************************************)
InitGroup ==
    LET \* what a node can be: a plain text, a clickable text (same type code
        \* "T", other clickable flag) or a button; every node has its own text
        GroupVariants == {"label", "link", "button"}
        GroupTexts == <<"A", "B", "C", "D", "E", "F">>
        GroupNode(t, v) ==
            UiNode("", t, "", IF v = "label" THEN "false" ELSE "true", BoundsNone,
                   "true",
                   IF v = "button" THEN "android.widget.Button"
                   ELSE "android.widget.TextView")
    IN
    /\ file = NoFile
    /\ last = NoCall
    /\ \E k \in 0..MaxGroupNodes : \E c \in [1..k -> GroupVariants] :
          input = ParserInput("minimal",
                              [i \in 1..k |-> GroupNode(GroupTexts[i], c[i])])
    /\ json = [n \in JsonFiles |-> NoJson]

SpecGroup == InitGroup /\ [][FnMinimal]_vars

(***************************************************************************)
(* Semantic Form-Pairing Tree Builder: src/src/semantic_tree.py            *)
(* An XML element is a record with its attributes and the sequence of its  *)
(* child elements; an absent attribute is the empty string.                *)
(***************************************************************************)
XmlNode(cl, t, r, c, b, kids) ==
    [class |-> cl, text |-> t, rid |-> r, clickable |-> c, bounds |-> b,
     kids |-> kids]

\* semantic_tree._get_semantic_type on the classes of the snapshots
_get_semantic_type(cl, clickable, text) ==
    LET SemClassWords ==
            [name \in {"android.widget.TextView", "android.widget.EditText",
                       "android.widget.Button", "android.widget.FrameLayout", ""} |->
                CASE name = "android.widget.TextView" -> {"textview", "view"}
                  [] name = "android.widget.EditText" -> {"edittext"}
                  [] name = "android.widget.Button" -> {"button"}
                  [] name = "android.widget.FrameLayout" -> {"layout"}
                  [] OTHER -> {}]
        Has(word) == word \in SemClassWords[cl]
    IN  IF Has("edittext") \/ Has("textinput") THEN "input"
        ELSE IF Has("button") \/ (clickable /\ text # "") THEN "button"
        ELSE IF Has("textview") /\ ~clickable THEN "label"
        ELSE IF Has("checkbox") THEN "checkbox"
        ELSE IF Has("switch") THEN "switch"
        ELSE IF Has("imageview") /\ clickable THEN "imageButton"
        ELSE IF Has("layout") \/ Has("viewgroup") \/ Has("view") THEN "container"
        ELSE "element"

\* a node of the semantic tree: text, resourceId and className are "" and
\* clickable is FALSE when the key is absent; label and input are the keys of
\* a formGroup; src, labelSrc and inputSrc are the paths (child positions from
\* the root) of the XML elements the node was built from: they stand for the
\* identity of the dictionaries and are not part of the output
SemNode(type, bounds, text, rid, clickable, cl, children, src) ==
    [type |-> type, bounds |-> bounds, text |-> text, resourceId |-> rid,
     clickable |-> clickable, className |-> cl, children |-> children,
     label |-> "", input |-> None, src |-> src, labelSrc |-> <<>>,
     inputSrc |-> <<>>]

\* semantic_tree._parse_bounds gives the zero rectangle for a text that does
\* not match, as list_detector._parse_bounds does with the same pattern
RECURSIVE _build_node_tree(_, _)
_build_node_tree(node, path) ==
    SemNode(_get_semantic_type(node.class, node.clickable = "true", node.text),
            _parse_bounds_or_zero(node.bounds), node.text, node.rid,
            node.clickable = "true", node.class,
            [i \in 1..Len(node.kids) |->
                _build_node_tree(node.kids[i], path \o <<i>>)], path)

\* a score that counts the vertical distance alone
VerticalScore(distance, x_distance2) == 4 * distance

\* four times total_distance = distance + x_distance * 0.5, where x_distance2
\* is twice the distance of the centers (the centers are halves)
FormScore(distance, x_distance2) == 4 * distance + x_distance2

\* the position in inputs of the input _find_nearest_input returns, 0 for None
_find_nearest_input(label, inputs, used) ==
    LET \* the loop over inputs from input i on: best is <<>> for infinity
        RECURSIVE Scan(_, _, _)
        Scan(i, best, nearest) ==
            LET Tried(inp, distance, x_distance2) ==
                    IF /\ i \notin used
                       /\ inp.bounds[2] > label.bounds[4]
                       /\ distance < 100 /\ x_distance2 < 400
                       /\ (best = <<>> \/ FormScore(distance, x_distance2) < best[1])
                    THEN Scan(i + 1, <<FormScore(distance, x_distance2)>>, i)
                    ELSE Scan(i + 1, best, nearest)
            IN  IF i > Len(inputs) THEN nearest
                ELSE Tried(inputs[i], inputs[i].bounds[2] - label.bounds[4],
                           Abs((label.bounds[1] + label.bounds[3])
                               - (inputs[i].bounds[1] + inputs[i].bounds[3])))
    IN  Scan(1, <<>>, 0)

_merge_bounds(b1, b2) ==
    <<Smaller(b1[1], b2[1]), Smaller(b1[2], b2[2]),
      IF b1[3] > b2[3] THEN b1[3] ELSE b2[3],
      IF b1[4] > b2[4] THEN b1[4] ELSE b2[4]>>

\* the tree after _create_form_groups(node) rewrote it in place
RECURSIVE _create_form_groups(_)
_create_form_groups(node) ==
    LET IsLabel(c) == c.type = "label" /\ c.text # ""
        IsInput(c) == c.type = "input"
        \* the recursive call on the other children that have children
        Other(c) == IF c.children # <<>> THEN _create_form_groups(c) ELSE c
        FormGroup(label, inp) ==
            [SemNode("formGroup", _merge_bounds(label.bounds, inp.bounds), "", "",
                     FALSE, "", <<>>, label.src)
                EXCEPT !.label = label.text,
                       !.input = Some([type |-> "input", bounds |-> inp.bounds,
                                        resourceId |-> inp.resourceId,
                                        hint |-> inp.text]),
                       !.labelSrc = label.src, !.inputSrc = inp.src]
        \* the inputs whose position is not in used
        Remaining(inputs, used) ==
            LET RECURSIVE From(_)
                From(j) ==
                    IF j > Len(inputs) THEN <<>>
                    ELSE (IF j \in used THEN <<>> ELSE <<inputs[j]>>) \o From(j + 1)
            IN  From(1)
        \* the loop over the labels from label i on, with the used inputs
        RECURSIVE Pair(_, _, _, _)
        Pair(labels, inputs, i, used) ==
            LET With(nearest) ==
                    IF nearest # 0
                    THEN <<FormGroup(labels[i], inputs[nearest])>>
                         \o Pair(labels, inputs, i + 1, used \cup {nearest})
                    ELSE <<labels[i]>> \o Pair(labels, inputs, i + 1, used)
            IN  IF i > Len(labels) THEN Remaining(inputs, used)
                ELSE With(_find_nearest_input(labels[i], inputs, used))
        Regrouped(children) ==
            LET others == SelectSeq(children, LAMBDA c : ~IsLabel(c) /\ ~IsInput(c))
            IN  Pair(SelectSeq(children, IsLabel), SelectSeq(children, IsInput), 1, {})
                \o [j \in 1..Len(others) |-> Other(others[j])]
        Grouped(n) ==
            IF n.type = "container" /\ n.children # <<>>
            THEN [n EXCEPT !.children = Regrouped(n.children)]
            ELSE n
        Below(n) ==
            [n EXCEPT !.children =
                [j \in 1..Len(n.children) |-> _create_form_groups(n.children[j])]]
    IN  Below(Grouped(node))

\* the tree after _prune_tree(node) rewrote it in place
RECURSIVE _prune_tree(_)
_prune_tree(node) ==
    LET Empty(c) ==
            /\ c.type = "container" /\ c.children = <<>>
            /\ c.text = "" /\ ~c.clickable
        \* a single child without bounds of its own takes those of the container
        Donated(n, kept) ==
            IF Len(kept) = 1 /\ kept[1].bounds = <<0, 0, 0, 0>>
            THEN <<[kept[1] EXCEPT !.bounds = n.bounds]>>
            ELSE kept
        Filtered(n) ==
            IF n.type = "container" /\ n.children # <<>>
            THEN [n EXCEPT !.children =
                     Donated(n, SelectSeq(n.children, LAMBDA c : ~Empty(c)))]
            ELSE n
        Below(n) ==
            [n EXCEPT !.children =
                [j \in 1..Len(n.children) |-> _prune_tree(n.children[j])]]
        Stripped(n) ==
            IF n.type # "element" THEN [n EXCEPT !.className = ""] ELSE n
    IN  Stripped(Below(Filtered(node)))

\* the "screen" of semantic_tree.build_tree
build_tree(root) == _prune_tree(_create_form_groups(_build_node_tree(root, <<>>)))

(***************************************************************************)
(* build_tree on bounded forms                                             *)
(***************************************************************************)
InitForm ==
    LET Text(t, x1, y1, x2, y2) ==
            XmlNode("android.widget.TextView", t, "", "false",
                    BoundsStr(x1, y1, x2, y2), <<>>)
        Edit(r, x1, y1, x2, y2) ==
            XmlNode("android.widget.EditText", "", r, "true",
                    BoundsStr(x1, y1, x2, y2), <<>>)
        Layout(b, kids) ==
            XmlNode("android.widget.FrameLayout", "", "", "false", b, kids)
        \* two labels whose bottoms are at 150 and 155 and whose centers are at
        \* 100; inputs at distances on both sides of the thresholds; a nested
        \* container with a label and an input of its own; a text view
        \* without text
        FormVariants ==
            {"email", "name", "below", "shifted", "low", "far", "aside", "box",
             "blank"}
        Child(v) ==
            CASE v = "email" -> Text("Email", 0, 100, 200, 150)
              [] v = "name" -> Text("Name", 0, 120, 200, 155)
              [] v = "below" -> Edit("f1", 0, 160, 200, 210)
              [] v = "shifted" -> Edit("f2", 101, 152, 400, 202)
              [] v = "low" -> Edit("f6", 0, 240, 200, 290)
              [] v = "far" -> Edit("f3", 0, 250, 200, 300)
              [] v = "aside" -> Edit("f4", 200, 153, 400, 203)
              [] v = "box" -> Layout(BoundsStr(0, 140, 400, 300),
                                     <<Edit("f5", 0, 156, 200, 206),
                                       Text("Phone", 0, 100, 200, 150)>>)
              [] OTHER -> Text("", 0, 0, 10, 10)
    IN
    /\ file = NoFile
    /\ last = NoCall
    /\ \E k \in 0..MaxFormChildren : \E c \in [1..k -> FormVariants] :
          input = [kind |-> "form",
                   tree |-> XmlNode("", "", "", "", BoundsNone,
                                    <<Layout(BoundsStr(0, 0, 400, 800),
                                             [i \in 1..k |-> Child(c[i])])>>)]
    /\ json = [n \in JsonFiles |-> NoJson]

\* semantic_tree.build_tree applied to the input document
FnForm ==
    /\ Idle
    /\ input.kind = "form"
    /\ last' = [NoCall EXCEPT !.op = "build_tree", !.result = "ok",
                              !.out = build_tree(input.tree)]
    /\ UNCHANGED <<file, input, json>>

SpecForm == InitForm /\ [][FnForm]_vars

(***************************************************************************)
(* The planner calls in a working directory with a .env file               *)
(***************************************************************************)
InitEnv ==
    LET \* what the .env file defines: nothing (or no file), either credential, both
        DotenvFiles == [key : {"unset", "set"}, project : {"unset", "set"}]
        Screen == <<Node("", "OK", "d1", "false", BoundsA),
                    Node("id1", "OK", "", "true", BoundsA)>>
    IN
    /\ file = [exists |-> TRUE, gen |-> 1, wellFormed |-> TRUE, tree |-> Screen]
    /\ last = NoCall
    /\ input \in [kind : {"dotenv"}, dotenv : DotenvFiles]
    /\ json = [n \in JsonFiles |-> NoJson]

SpecEnv ==
    InitEnv /\ [][ChooseNode \/ ChooseNodeWithLlm \/ AnalyzeScreenForGoal \/ Return]_vars

(***************************************************************************)
(* cli.run on snapshots of screens that repeat a text or a resource-id     *)
(***************************************************************************)
InitPlan ==
    LET \* a caption and a button with the same text, in both orders; two nodes
        \* with the same resource-id; a button with a text of its own
        PlanScreens ==
            {<<Node("", "OK", "d1", "false", BoundsA), Node("", "OK", "", "true", BoundsA)>>,
             <<Node("", "OK", "", "true", BoundsA), Node("", "OK", "d1", "false", BoundsA)>>,
             <<Node("id1", "", "", "false", BoundsA), Node("id1", "", "", "true", BoundsA)>>,
             <<Node("id1", "", "", "false", BoundsA), Node("id1", "", "d1", "true", BoundsA)>>,
             <<Node("", "Name", "", "false", BoundsA), Node("id1", "OK", "", "true", BoundsA)>>}
    IN
    /\ \E tr \in PlanScreens :
          file = [exists |-> TRUE, gen |-> 1, wellFormed |-> TRUE, tree |-> tr]
    /\ last = NoCall
    /\ input = [kind |-> "dotenv", dotenv |-> IdleEnv]
    /\ json = [n \in JsonFiles |-> NoJson]

SpecPlan == InitPlan /\ [][Run \/ Return]_vars

(***************************************************************************)
(* Family Grouping Parser: src/src/family_tree_parser.py                   *)
(* The snapshot is the sequence of its <node> elements in document order,  *)
(* each with the position of its parent node (0 under <hierarchy>, which   *)
(* has no enabled attribute and so counts as disabled).                    *)
(***************************************************************************)
parse_family_tree(tree) ==
    LET \* for child in node: the positions of the children of node k, in order
        Kids(k) ==
            SelectSeq([i \in 1..Len(tree) |-> i], LAMBDA i : tree[i].parent = k)
        \* text or desc, else the title made of the resource-id ("" stands for
        \* an id without "/")
        Label(n) ==
            LET IdTitle ==
                    [r \in {"", "id1", "com.app:id/login_button"} |->
                        IF r = "com.app:id/login_button" THEN "Login Button" ELSE ""]
            IN  IF Strip(n.text) # "" THEN Strip(n.text)
                ELSE IF Strip(n.desc) # "" THEN Strip(n.desc)
                ELSE IdTitle[n.rid]
        \* family_tree_parser._get_element_type; no class of the snapshots has
        \* "layout" twice, which "form" asks for
        Type(n) ==
            IF ClassHas(n.class, "edittext") THEN "input"
            ELSE IF ClassHas(n.class, "button") THEN "button"
            ELSE IF ClassHas(n.class, "textview") /\ IsTrue(n.clickable) THEN "button"
            ELSE IF ClassHas(n.class, "textview") THEN "text"
            ELSE IF ClassHas(n.class, "recyclerview") \/ ClassHas(n.class, "listview")
            THEN "list"
            ELSE IF ClassHas(n.class, "viewgroup") \/ ClassHas(n.class, "layout")
            THEN "container"
            ELSE "element"
        \* the hint of the labels of the snapshots, "" for an element without one
        Hint(label) ==
            IF label = "Email" THEN "email_input"
            ELSE IF label = "Login" THEN "login_action" ELSE ""
        \* the element dict of node k; src is the position of the node (not part
        \* of the output)
        Element(k, id) ==
            [id |-> id, label |-> Label(tree[k]),
             action |-> IF Type(tree[k]) = "input" THEN "type"
                        ELSE IF Type(tree[k]) = "button" \/ IsTrue(tree[k].clickable)
                        THEN "tap" ELSE "interact",
             type |-> Type(tree[k]), hint |-> Hint(Label(tree[k])), src |-> k]
        \* a in b on the lower-cased labels of the snapshots, none of which is
        \* part of another
        Within(a, b) == a = b
        \* _find_semantic_parent: the position in families of the first family
        \* whose name matches the text of one of the three siblings before
        \* node k, 0 for None
        SemanticParent(k, families) ==
            LET Among(sibs, i) ==
                    LET RECURSIVE Prev(_, _)
                        Prev(j, f) ==
                            IF j >= i THEN 0
                            ELSE IF f > Len(families) THEN Prev(j + 1, 1)
                            ELSE IF /\ Strip(tree[sibs[j]].text) # ""
                                    /\ \/ Within(Strip(tree[sibs[j]].text), families[f].name)
                                       \/ Within(families[f].name, Strip(tree[sibs[j]].text))
                            THEN f
                            ELSE Prev(j, f + 1)
                    IN  Prev(IF i - 3 > 1 THEN i - 3 ELSE 1, 1)
                At(sibs) == Among(sibs, CHOOSE i \in DOMAIN sibs : sibs[i] = k)
            IN  At(Kids(tree[k].parent))
        \* the element of node k goes to the family under construction, to its
        \* semantic parent or to the orphans; st.n is len(quick_index)
        Added(k, ctx, st) ==
            LET Filed(f) ==
                    IF ctx
                    THEN [st EXCEPT !.members = Append(@, Element(k, st.n)),
                                    !.n = @ + 1]
                    ELSE IF f # 0
                    THEN [st EXCEPT !.families[f].members = Append(@, Element(k, st.n)),
                                    !.n = @ + 1]
                    ELSE [st EXCEPT !.orphans = Append(@, Element(k, st.n)),
                                    !.n = @ + 1]
            IN  Filed(IF ctx THEN 0 ELSE SemanticParent(k, st.families))
        \* _process_node_family(node k, parent_context, family_tree): ctx says
        \* whether parent_context is a family, whose members are st.members
        RECURSIVE Process(_, _, _), Each(_, _, _)
        Each(kids, ctx, st) ==
            IF kids = <<>> THEN st
            ELSE Each(Tail(kids), ctx, Process(Head(kids), ctx, st))
        Process(k, ctx, st) ==
            LET \* the family is added if it has members, and the children are
                \* processed once more with current_context
                Headed(inner) ==
                    IF inner.members # <<>>
                    THEN Each(Kids(k), FALSE,
                              [inner EXCEPT !.families =
                                                Append(@, [name |-> Label(tree[k]),
                                                           type |-> Type(tree[k]),
                                                           members |-> inner.members]),
                                            !.members = st.members])
                    ELSE Each(Kids(k), ctx, [inner EXCEPT !.members = st.members])
            IN  IF ~IsTrue(tree[k].enabled) THEN Each(Kids(k), ctx, st)
                ELSE IF /\ Type(tree[k]) \in {"container", "list", "form"}
                        /\ Label(tree[k]) # "" /\ Kids(k) # <<>>
                THEN Headed(Each(Kids(k), TRUE, [st EXCEPT !.members = <<>>]))
                ELSE IF /\ \/ Type(tree[k]) \in {"input", "button"}
                           \/ IsTrue(tree[k].clickable)
                        /\ Label(tree[k]) # ""
                THEN Each(Kids(k), ctx, Added(k, ctx, st))
                ELSE Each(Kids(k), ctx, st)
        \* _create_family_guide; a suggestion stands as the form whose family
        \* name, field ids and submit id its string is made of
        Guide(families) ==
            LET OfType(f, t) == SelectSeq(f.members, LAMBDA m : m.type = t)
                RECURSIVE Forms(_), Actions(_)
                Forms(i) ==
                    IF i > Len(families) THEN <<>>
                    ELSE (IF OfType(families[i], "input") # <<>>
                          THEN <<[family_name |-> families[i].name,
                                  fields |-> OfType(families[i], "input"),
                                  submit_button |->
                                      IF OfType(families[i], "button") # <<>>
                                      THEN Some(Head(OfType(families[i], "button")))
                                      ELSE None]>>
                          ELSE <<>>) \o Forms(i + 1)
                Actions(i) ==
                    IF i > Len(families) THEN <<>>
                    ELSE [j \in 1..Len(OfType(families[i], "button")) |->
                             [id |-> OfType(families[i], "button")[j].id,
                              label |-> OfType(families[i], "button")[j].label,
                              family |-> families[i].name]] \o Actions(i + 1)
                Suggested(forms) ==
                    [forms |-> forms, actions |-> Actions(1),
                     suggestions |->
                         SelectSeq(forms, LAMBDA f : f.submit_button # None)]
            IN  Suggested(Forms(1))
        Result(st) ==
            [families |-> st.families, orphans |-> st.orphans,
             total_elements |-> st.n, family_guide |-> Guide(st.families)]
    IN  Result(Each(Kids(0), FALSE,
                    [families |-> <<>>, orphans |-> <<>>, n |-> 0, members |-> <<>>]))

(***************************************************************************)
(* Hierarchical parser: parse_hierarchical_for_llm of src/src/parser.py    *)
(* index_counter is the value in the list that is the default argument of  *)
(* _process_node_hierarchical, made once when the module is imported; the  *)
(* result is paired with the value the call leaves in it.  The views       *)
(* derived from the sections and the elements (quick_actions, forms,       *)
(* lists, suggestions) are left out.                                       *)
(***************************************************************************)
parse_hierarchical_for_llm(tree, index_counter) ==
    LET Kids(k) ==
            SelectSeq([i \in 1..Len(tree) |-> i], LAMBDA i : tree[i].parent = k)
        \* parent.findall(".//node"): the nodes below node p (all of them for 0)
        RECURSIVE IsBelow(_, _)
        IsBelow(i, p) ==
            IF i = 0 THEN FALSE
            ELSE tree[i].parent = p \/ IsBelow(tree[i].parent, p)
        Below(p) == {i \in 1..Len(tree) : IsBelow(i, p)}
        \* _get_container_type: no resource-id of the snapshots has one of
        \* its words, and no class has "scroll"
        ContainerType(n) == IF ClassHas(n.class, "scroll") THEN "content" ELSE "section"
        \* _get_position_description, on the doubled center: 0.33 and 0.67 of
        \* 1080 are 356.4 and 723.6, 0.2 and 0.8 of 2400 are 480 and 1920
        Position(v) ==
            LET h == IF v[1] + v[3] < 713 THEN "left"
                     ELSE IF v[1] + v[3] > 1447 THEN "right" ELSE "center"
                w == IF v[2] + v[4] < 960 THEN "top"
                     ELSE IF v[2] + v[4] > 3840 THEN "bottom" ELSE "middle"
            IN  IF h = "center" /\ w = "middle" THEN <<"center">>
                ELSE IF w = "middle" THEN <<h>>
                ELSE IF h = "center" THEN <<w>>
                ELSE <<w, "-", h>>
        \* the position key, <<>> when the bounds are empty or do not parse
        Placed(b) ==
            LET Parsed(m) == IF b # <<>> /\ m.ok THEN Position(m.val) ELSE <<>>
            IN  Parsed(_parse_bounds(b))
        Action(type, clickable) ==
            IF type = "input" THEN "type"
            ELSE IF type = "button" \/ clickable THEN "click"
            ELSE IF type \in {"switch", "checkbox"} THEN "toggle"
            ELSE IF type = "dropdown" THEN "select"
            ELSE "interact"
        \* the element dict of node k; section is "" until the extraction sets
        \* it; src is the position of the node (not part of the output)
        Element(k, depth, idx) ==
            LET n == tree[k]
                ParentClass == IF n.parent = 0 THEN "" ELSE tree[n.parent].class
            IN  [idx |-> idx, type |-> _get_element_type(n.class),
                 label |-> _create_label(Strip(n.text), Strip(n.desc), n.rid,
                                         _get_element_type(n.class)),
                 action |-> Action(_get_element_type(n.class), IsTrue(n.clickable)),
                 context |-> [parent_type |-> _get_element_type(ParentClass),
                              depth |-> depth,
                              siblings_count |-> Cardinality(Below(n.parent)),
                              same_type_siblings |->
                                  Cardinality({i \in Below(n.parent) :
                                                  tree[i].class = n.class})],
                 position |-> Placed(n.bounds), section |-> "", src |-> k]
        \* _process_node_hierarchical(node k, parent_dict, depth, index_counter):
        \* acc holds the "children" and "sections" lists of parent_dict and the
        \* counter
        RECURSIVE Process(_, _, _), Each(_, _, _)
        Each(kids, depth, acc) ==
            IF kids = <<>> THEN acc
            ELSE Each(Tail(kids), depth, Process(Head(kids), depth, acc))
        Process(k, depth, acc) ==
            LET n == tree[k]
                type == _get_element_type(n.class)
                \* the container is added if it has children, and the children of
                \* the node are processed once more into parent_dict
                Sectioned(inner) ==
                    Each(Kids(k), depth + 1,
                         IF inner.children # <<>>
                         THEN [acc EXCEPT !.sections =
                                              Append(@, [type |-> ContainerType(n),
                                                         id |-> "",
                                                         children |-> inner.children,
                                                         sections |-> inner.sections]),
                                          !.counter = inner.counter]
                         ELSE [acc EXCEPT !.counter = inner.counter])
            IN  IF depth > 10 THEN acc
                ELSE IF type \in {"container", "scroll_container", "list"}
                        /\ Kids(k) # <<>>
                THEN Sectioned(Each(Kids(k), depth + 1,
                                    [children |-> <<>>, sections |-> <<>>,
                                     counter |-> acc.counter]))
                ELSE IF /\ IsTrue(n.clickable) \/ type \in {"input", "button"}
                        /\ IsTrue(n.enabled)
                        /\ Strip(n.text) # "" \/ Strip(n.desc) # "" \/ n.rid # ""
                THEN Each(Kids(k), depth + 1,
                          [acc EXCEPT !.children = Append(@, Element(k, depth, acc.counter)),
                                      !.counter = @ + 1])
                ELSE Each(Kids(k), depth + 1, acc)
        \* _identify_screen_sections: sorted() by priority keeps the order of
        \* the sections of one type
        Priorities == <<"dialog", "header", "navigation", "form", "content", "list",
                        "section">>
        RECURSIVE Sorted(_, _)
        Sorted(sections, p) ==
            IF p > Len(Priorities) THEN <<>>
            ELSE SelectSeq(sections, LAMBDA s : s.type = Priorities[p])
                 \o Sorted(sections, p + 1)
        \* _extract_from_section sets the section key of the elements it takes:
        \* the direct children of the top-level sections
        Tagged(s) ==
            [s EXCEPT !.children =
                [i \in 1..Len(s.children) |-> [s.children[i] EXCEPT !.section = s.type]]]
        RECURSIVE Extracted(_)
        Extracted(sections) ==
            IF sections = <<>> THEN <<>>
            ELSE Head(sections).children \o Extracted(Tail(sections))
        Result(sections, counter) ==
            [sections |-> sections, elements |-> Extracted(sections),
             count |-> Len(Extracted(sections)), index_counter |-> counter]
        Built(acc) ==
            Result([i \in 1..Len(Sorted(acc.sections, 1)) |->
                       Tagged(Sorted(acc.sections, 1)[i])], acc.counter)
    IN  \* <hierarchy> has no class and no enabled attribute: its children are
        \* processed at depth 1 into screen_hierarchy
        Built(Each(Kids(0), 1, [children |-> <<>>, sections |-> <<>>,
                                counter |-> index_counter]))

(***************************************************************************)
(* The tree-walking parsers on bounded nested snapshots                    *)
(***************************************************************************)
InitNested ==
    LET \* the nodes: a container with a content-desc, a container without
        \* label, a button, an input, an unclickable text that reads like the
        \* labelled container, and a disabled button
        NestedVariants == {"group", "box", "button", "field", "caption", "off"}
        NestedNode(v, parent) ==
            CASE v = "group" ->
                   TreeNode(parent, "", "", "Account", "false", BoundsA, "true",
                            "android.widget.FrameLayout")
              [] v = "box" ->
                   TreeNode(parent, "", "", "", "false", BoundsA, "true",
                            "android.widget.FrameLayout")
              [] v = "button" ->
                   TreeNode(parent, "", "Login", "", "true", BoundsA, "true",
                            "android.widget.Button")
              [] v = "field" ->
                   TreeNode(parent, "", "Email", "", "true", BoundsA, "true",
                            "android.widget.EditText")
              [] v = "caption" ->
                   TreeNode(parent, "", "Account", "", "false", BoundsA, "true",
                            "android.widget.TextView")
              [] OTHER ->
                   TreeNode(parent, "", "No", "", "true", BoundsA, "false",
                            "android.widget.Button")
        \* where node i hangs: under <hierarchy>, or in the container open at the
        \* node before it (that node if it is a container, else its parent)
        NestedPlaces == {"root", "inside"}
        RECURSIVE NestedParent(_, _, _)
        NestedParent(c, u, i) ==
            IF i = 1 \/ u[i] = "root" THEN 0
            ELSE IF c[i - 1] \in {"group", "box"} THEN i - 1
            ELSE NestedParent(c, u, i - 1)
    IN
    /\ file = NoFile
    /\ last = NoCall
    /\ \E k \in 0..MaxNestedNodes :
          \E c \in [1..k -> NestedVariants], u \in [1..k -> NestedPlaces] :
             \* index_counter is 0 in a process that has just imported parser.py
             input = [kind |-> "nested", index_counter |-> 0, calls |-> 0,
                      tree |-> [i \in 1..k |-> NestedNode(c[i], NestedParent(c, u, i))]]
    /\ json = [n \in JsonFiles |-> NoJson]

\* family_tree_parser.parse_family_tree applied to the input snapshot
FnFamily ==
    /\ Idle
    /\ input.kind = "nested"
    /\ last' = [NoCall EXCEPT !.op = "parse_family_tree",
                              !.out = <<parse_family_tree(input.tree)>>]
    /\ UNCHANGED <<file, input, json>>

\* parser.parse_hierarchical_for_llm applied to the input snapshot, in a
\* process that has called it input.calls times
FnHierarchical ==
    /\ Idle
    /\ input.kind = "nested"
    /\ input.calls < MaxCalls
    /\ LET Parsed(r) ==
               /\ last' = [NoCall EXCEPT !.op = "parse_hierarchical_for_llm",
                                         !.out = <<r>>]
               /\ input' = [input EXCEPT !.index_counter = r.index_counter,
                                         !.calls = @ + 1]
       IN  Parsed(parse_hierarchical_for_llm(input.tree, input.index_counter))
    /\ UNCHANGED <<file, json>>

SpecNested == InitNested /\ [][FnFamily \/ FnHierarchical \/ Return]_vars

Next ==
    \/ DumpUI \/ TapNode \/ ChooseNode \/ Run \/ Execute
    \/ (\E c \in DumpCommands : DumpCmd(c))
    \/ ChooseNodeWithLlm \/ AnalyzeScreenForGoal
    \/ Return

Spec == Init /\ [][Next]_vars

(***************************************************************************)
(* Properties                                                              *)
(***************************************************************************)
Min(S) == CHOOSE x \in S : \A y \in S : x <= y

IsPull(c) == c \in {"pull:/sdcard", "pull:/data/local/tmp"}
Pulls(cmds) == SelectSeq(cmds, IsPull)
Has(cmds, c) == \E i \in 1..Len(cmds) : cmds[i] = c

\* a call record of an execution of tap_node, direct or inside run/execute
TapCalled(c) ==
    c.op = "tap_node" \/ (c.op \in {"run", "execute"} /\ c.cmds # <<>>)

\* tap_node got as far as resolving the selector
DidResolve(c) ==
    c.result \in {"NotFound", "MissingBounds", "InvalidInput"} \/ c.tap # <<>>

\* the capture described by the answers e completed successfully
CaptureSucceeded(e) ==
    /\ e.tool = "present" /\ e.devices = Listed
    /\ (e.rc = 0 \/ e.marker)
    /\ (e.pull1 = "ok" \/ e.pull2 = "ok")
    /\ e.wellFormed

\* C1: every execution of tap_node starts a new capture; when it resolves the
\* selector it resolves it in the snapshot that capture wrote (newer than
\* whatever was on disk before the call), and a tap is issued only as the last
\* command, after a pull of a successful capture.
C1_FreshCapture ==
    [][TapCalled(last') =>
        /\ Len(last'.cmds) >= 1 /\ last'.cmds[1] = "version"
        /\ DidResolve(last') =>
              /\ last'.gen > file.gen
              /\ last'.gen = file'.gen
              /\ Pulls(last'.cmds) # <<>>
              /\ CaptureSucceeded(last'.e)
        /\ Has(last'.cmds, "tap") =>
              /\ last'.cmds[Len(last'.cmds)] = "tap"
              /\ Pulls(last'.cmds) # <<>>
              /\ CaptureSucceeded(last'.e)]_vars

\* a tap that was resolved in a second capture, an older snapshot being on disk
C1_Witness ==
    /\ last.op = "tap_node" /\ last.result = "ok" /\ last.tap # <<>>
    /\ last.gen = 2 /\ file.gen = 2

\* a selector field is satisfied: it is empty, or the attribute equals it
FieldOk(sv, nv) == sv = "" \/ nv = sv

Satisfying(tree, sel) ==
    {i \in 1..Len(tree) : /\ FieldOk(sel.rid, tree[i].rid)
                          /\ FieldOk(sel.text, tree[i].text)
                          /\ FieldOk(sel.desc, tree[i].desc)}

\* C2: tap_node selects the first node in document order whose attributes
\* equal every non-empty selector field; it fails with NotFound, without a
\* tap, when no node of the fresh snapshot does.
C2_FirstExactMatch ==
    (last.op = "tap_node" /\ input.kind = "tap") =>
        IF Satisfying(input.tree, input.sel) = {}
        THEN last.result = "NotFound" /\ last.found = 0 /\ last.tap = <<>>
        ELSE /\ last.found = Min(Satisfying(input.tree, input.sel))
             /\ last.result = "ok"

\* the second node is selected by one field, the other two are not compared
\* and the first node differs only in the case of its text
C2_Witness ==
    /\ last.op = "tap_node" /\ input.kind = "tap"
    /\ input.sel = Selector("", "OK", "")
    /\ Len(input.tree) = 2
    /\ input.tree[1].text = "ok" /\ input.tree[2].rid = "id1"
    /\ last.found = 2

EmptySelector == Selector("", "", "")

\* C3: tap_node called with a selector whose three fields are empty resolves
\* no node and issues no tap, and fails with InvalidInput once the capture
\* succeeded.
C3_EmptySelectorRejected ==
    (last.op = "tap_node" /\ last.sel = Some(EmptySelector)) =>
        /\ last.tap = <<>>
        /\ last.found = 0
        /\ CaptureSucceeded(last.e) => last.result = "InvalidInput"

\* C4: choose_node lets no failure of the LLM path escape; it returns the
\* LLM path's selector only when a credential is set, a goal is given and the
\* LLM path succeeded, and the stub's selector otherwise, in particular
\* whenever no credential is set or no goal is given.
C4_ChooseNodeFallsBack ==
    last.op = "choose_node" =>
        /\ last.result = "ok"
        /\ last.path \in {"llm", "stub"}
        /\ last.path = "llm" =>
              /\ last.pe.key = "set" \/ last.pe.project = "set"
              /\ last.goal \notin {NoGoal, ""}
              /\ last.llm = "ok"
              /\ last.le.importOk /\ last.le.reply.kind = "decision"
        /\ last.path = "stub" => last.sel = choose_node_stub(last.nodes)
        /\ ((last.pe.key = "unset" /\ last.pe.project = "unset")
              \/ last.goal \in {NoGoal, ""}) =>
              last.path = "stub" /\ last.sel = choose_node_stub(last.nodes)

\* the model returned an out-of-range index and the stub's selector came back
C4_Witness ==
    /\ last.op = "choose_node" /\ last.llm = "InvalidIndex"
    /\ last.path = "stub" /\ last.sel # None /\ last.result = "ok"

ClickableWithText(ns) ==
    {i \in 1..Len(ns) : ns[i].clickable /\ ns[i].text # ""}

ClickableWithId(ns) ==
    {i \in 1..Len(ns) : ns[i].clickable /\ (ns[i].rid # "" \/ ns[i].desc # "")}

SelectorOf(n) == Selector(n.rid, n.text, n.desc)

\* C5: choose_node_stub returns the selector of the first clickable node with
\* text, else of the first clickable node with a resource-id or content-desc,
\* else none.
C5_StubRule ==
    last.op = "choose_node_stub" =>
        last.sel =
            IF ClickableWithText(input.nodes) # {}
            THEN Some(SelectorOf(input.nodes[Min(ClickableWithText(input.nodes))]))
            ELSE IF ClickableWithId(input.nodes) # {}
            THEN Some(SelectorOf(input.nodes[Min(ClickableWithId(input.nodes))]))
            ELSE None

\* a clickable node with text is preferred over an earlier clickable node that
\* has only a resource-id
C5_Witness ==
    /\ last.op = "choose_node_stub" /\ Len(input.nodes) = 2
    /\ input.nodes[1].clickable /\ input.nodes[1].text = ""
    /\ input.nodes[1].rid = "id1" /\ input.nodes[1].desc = ""
    /\ input.nodes[2].clickable /\ input.nodes[2].text = "OK"
    /\ last.sel = Some(SelectorOf(input.nodes[2]))

Affirmative(ans) == ans = "y"

\* C6: in run and execute, an answer to the confirmation other than yes (no,
\* the default, end of input) ends the command with no command sent to the
\* device, no tap and the snapshot file as it was.
C6_DeclineNoEffect ==
    [][(last'.op \in {"run", "execute"} /\ last'.asked
         /\ ~Affirmative(last'.answer)) =>
        /\ file' = file
        /\ last'.cmds = <<>>
        /\ last'.tap = <<>>]_vars

\* run was answered with the empty line and ended with "Aborted."
C6_Witness ==
    /\ last.op = "run" /\ last.asked /\ last.answer = ""
    /\ last.result = "Aborted." /\ file.exists

\* C7: execute sends commands to the device only when the operator confirmed
\* and the action is "click"; confirmed with any other action it reports
\* not-yet-implemented, with no tap, no capture, the snapshot unchanged and no
\* other selector chosen.
C7_ExecuteClickOnly ==
    [][last'.op = "execute" =>
        /\ last'.cmds # <<>> =>
              /\ Affirmative(last'.answer)
              /\ last'.decision # None
              /\ last'.decision[1].action = "click"
        /\ (last'.asked /\ Affirmative(last'.answer)
             /\ last'.decision[1].action # "click") =>
              /\ last'.result = "NotImplemented"
              /\ last'.cmds = <<>> /\ last'.tap = <<>>
              /\ last'.sel = None /\ last'.path = ""
              /\ file' = file]_vars

\* execute was confirmed for a "type" decision
C7_Witness ==
    /\ last.op = "execute" /\ last.asked /\ last.answer = "y"
    /\ last.decision[1].action = "type"
    /\ last.result = "NotImplemented"

ToolPresent(e) == e.tool = "present"

DeviceListed(e) ==
    /\ ~e.devices.raised
    /\ Len(e.devices.lines) >= 2
    /\ e.devices.lines[2] # ""

StepAccepted(e) == e.rc = 0 \/ e.marker

OnePullOk(e) == e.pull1 = "ok" \/ e.pull2 = "ok"

\* C8: dump_ui returns a path only if the tool was present, a device was
\* listed, the serialization step was accepted, a pull succeeded and the file
\* is well-formed; the failures take precedence in the order ToolNotFound,
\* NoDeviceConnected, DumpFailed, InvalidSnapshot; with ToolNotFound or
\* NoDeviceConnected no dump and no pull was issued.
C8_DumpChecksInOrder ==
    last.op = "dump_ui" =>
        LET e == last.e
        IN  /\ last.result = "ok" =>
                  /\ ToolPresent(e) /\ DeviceListed(e) /\ StepAccepted(e)
                  /\ OnePullOk(e) /\ e.wellFormed
                  /\ Pulls(last.cmds) # <<>>
                  /\ file.exists /\ file.gen = e.gen
            /\ last.result = "ToolNotFound" <=> e.tool = "absent"
            /\ last.result = "NoDeviceConnected" <=>
                  (ToolPresent(e) /\ ~DeviceListed(e))
            /\ last.result = "DumpFailed" <=>
                  /\ ToolPresent(e) /\ DeviceListed(e)
                  /\ ~(StepAccepted(e) /\ OnePullOk(e))
            /\ last.result = "InvalidSnapshot" <=>
                  /\ ToolPresent(e) /\ DeviceListed(e) /\ StepAccepted(e)
                  /\ OnePullOk(e) /\ ~e.wellFormed
            /\ last.result \in {"ToolNotFound", "NoDeviceConnected"} =>
                  ~Has(last.cmds, "dump") /\ Pulls(last.cmds) = <<>>

\* no device is listed while the later steps would fail too
C8_Witness ==
    /\ last.op = "dump_ui" /\ last.result = "NoDeviceConnected"
    /\ last.e.rc = 1 /\ ~last.e.marker
    /\ last.e.pull1 = "fail" /\ last.e.pull2 = "fail" /\ ~last.e.wellFormed

\* C9 as stated: whenever the serialization step's output has no "dumped to"
\* marker, dump_ui fails with DumpFailed and pulls nothing.
C9_NoMarkerFails ==
    (last.op = "dump_ui" /\ ToolPresent(last.e) /\ DeviceListed(last.e)
     /\ ~last.e.marker) =>
        last.result = "DumpFailed" /\ Pulls(last.cmds) = <<>>

\* C9 amended: dump_ui fails with DumpFailed, pulling nothing and leaving the
\* snapshot file unchanged, whenever the serialization step exited non-zero
\* without "dumped to" in its output; a non-zero exit with the marker and a
\* zero exit with or without it go on to the pull.
C9_RejectedStepFails ==
    [][(last'.op = "dump_ui" /\ ToolPresent(last'.e) /\ DeviceListed(last'.e)) =>
        /\ (last'.e.rc # 0 /\ ~last'.e.marker) =>
              /\ last'.result = "DumpFailed"
              /\ Pulls(last'.cmds) = <<>>
              /\ file' = file
        /\ (last'.e.rc = 0 \/ last'.e.marker) => Pulls(last'.cmds) # <<>>]_vars

\* a rejected step with an earlier snapshot on disk
C9_Witness ==
    /\ last.op = "dump_ui" /\ last.result = "DumpFailed"
    /\ last.e.rc = 1 /\ ~last.e.marker /\ last.e.pull1 = "ok"
    /\ file.exists /\ file.gen = 1

\* C10: once the serialization step is accepted dump_ui pulls the primary
\* path first and the secondary path only if the primary pull did not
\* succeed, makes no other pull, and fails with DumpFailed exactly when both
\* pulls fail.
C10_TwoPathPull ==
    last.op = "dump_ui" =>
        LET e == last.e
        IN  IF ToolPresent(e) /\ DeviceListed(e) /\ StepAccepted(e)
            THEN /\ Pulls(last.cmds) =
                       IF e.pull1 = "ok" THEN <<"pull:/sdcard">>
                       ELSE <<"pull:/sdcard", "pull:/data/local/tmp">>
                 /\ last.result = "DumpFailed" <=>
                       (e.pull1 # "ok" /\ e.pull2 # "ok")
            ELSE Pulls(last.cmds) = <<>>

\* the primary pull failed and the secondary one delivered the snapshot
C10_Witness ==
    /\ last.op = "dump_ui" /\ last.result = "ok"
    /\ last.e.pull1 = "fail" /\ last.e.pull2 = "ok"
    /\ Pulls(last.cmds) = <<"pull:/sdcard", "pull:/data/local/tmp">>

\* the commands that capture: the dump commands, run and execute
Commands == {c.cmd : c \in DumpCommands} \cup {"run", "execute"}

\* the command ended with click.Abort (a declined confirmation and an action
\* that is not implemented return normally)
EndedInAbort(c) ==
    c.op \in Commands /\ c.result \notin {"ok", "Aborted.", "NotImplemented"}

\* C11: whenever a dump command, run or execute ends in an abort, the
\* snapshot file and the derived JSON files are what they were before the
\* command: a capture that fails with InvalidSnapshot and a tap that fails
\* with NotFound leave the previous snapshot in place.
C11_AbortLeavesState ==
    [][EndedInAbort(last') => file' = file /\ json' = json]_vars

\* C20: dumpXMLtoJson.json, if it exists, holds the Clean Tree Parser output
\* that a successful dump_llm wrote from the snapshot it captured; no other
\* command writes the file.
C20_CleanTreeFileOwner ==
    LET j == json["dumpXMLtoJson.json"]
    IN  j.exists => j.by = "dump_llm" /\ j.parser = "parse_clean_tree"

\* the node carries at least one non-empty identifying field
Identified(n) == ~(n.rid = "" /\ n.text = "" /\ n.desc = "")

\* C12: parse returns one record for exactly the nodes that carry a
\* non-empty resource-id, text or content-desc, whatever their enabled and
\* clickable attributes, in document order; each record copies the node's
\* fields and is clickable iff the attribute is exactly "true".
C12_ParseKeepsIdentified ==
    last.op = "parse" =>
        LET kept == SelectSeq(input.tree, Identified)
        IN  /\ Len(last.out) = Len(kept)
            /\ \A i \in 1..Len(kept) :
                  /\ last.out[i].rid = kept[i].rid
                  /\ last.out[i].text = kept[i].text
                  /\ last.out[i].desc = kept[i].desc
                  /\ last.out[i].bounds = kept[i].bounds
                  /\ last.out[i].clickable = (kept[i].clickable = "true")

\* a node without identity is dropped and a disabled node whose clickable
\* attribute is "TRUE" is kept as not clickable
C12_Witness ==
    /\ last.op = "parse" /\ Len(input.tree) = 2 /\ Len(last.out) = 1
    /\ \E i \in 1..2 : ~Identified(input.tree[i])
    /\ \E i \in 1..2 :
          /\ Identified(input.tree[i]) /\ input.tree[i].enabled = "false"
          /\ input.tree[i].clickable = "TRUE"
    /\ ~last.out[1].clickable

\* the node's bounds parse and measure under 20px on one side at least
MeasuresUnder20(n) ==
    /\ _parse_bounds(n.bounds).ok
    /\ LET v == _parse_bounds(n.bounds).val
       IN  v[3] - v[1] <= 19 \/ v[4] - v[2] <= 19

\* the nodes the output was built from: the source of every plain element
\* and of every label listed inside a list element
EmittedSources(out) ==
    {out[i].src : i \in {j \in 1..Len(out) : out[j].t # "L"}}
    \cup UNION {{out[i].items[m].src : m \in 1..Len(out[i].items)} :
                   i \in {j \in 1..Len(out) : out[j].t = "L"}}

\* C14: parse_minimal_for_llm never emits an element, plain or as a label
\* inside a list element, that comes from a node whose well-formed bounds
\* measure under 20px in width or in height.
C14_NoTinyElement ==
    last.op = "parse_minimal_for_llm" =>
        \A k \in EmittedSources(last.out) : ~MeasuresUnder20(input.tree[k])

\* six nodes, one of them 19px wide: the other five are emitted, four of
\* them as the labels of one list element
C14_Witness ==
    /\ last.op = "parse_minimal_for_llm"
    /\ Len(input.tree) = 6
    /\ \E a \in 1..6 : input.tree[a].bounds = Bounds19x40
    /\ Cardinality(EmittedSources(last.out)) = 5
    /\ \E i \in 1..Len(last.out) :
          last.out[i].t = "L" /\ Len(last.out[i].items) = 4

\* the sequence repeats its first p entries a whole number of times
Periodic(s, p) ==
    /\ Len(s) % p = 0
    /\ \A i \in 1..Len(s) : s[i] = s[((i - 1) % p) + 1]

SmallestPeriod(s) == Min({p \in 1..Len(s) : Periodic(s, p)})

\* the type signatures of the elements in sorted order
SortedSigs == [i \in 1..Len(last.nodes) |-> TypeSig(last.nodes[i])]

\* C15: when the type signatures of the sorted list elements are k >= 2
\* exact repetitions of a cycle whose smallest period p is between 2 and 7,
\* the detector takes the pattern branch, not the proximity fallback, and
\* returns k list items of p consecutive elements each.
C15_PeriodicListSplit ==
    last.op = "_identify_list_items" =>
        LET p == SmallestPeriod(SortedSigs)
            k == Len(SortedSigs) \div p
        IN  (p \in 2..7 /\ k >= 2) =>
               /\ last.path = "patterns"
               /\ Len(last.out) = k
               /\ \A j \in 1..k :
                     last.out[j].elements =
                        SubSeq(last.nodes, (j - 1) * p + 1, j * p)

\* the groups of the output
CleanGroups == last.out[1].groups

\* the input is a badge "NEW!", then the title "Poker Mania", then a tap
\* area over both, and nothing else
IsBadgeTitleTap ==
    /\ input.kind = "clean" /\ input.shape = "flat"
    /\ input.variants = <<"badge", "title", "tap">>

\* the elements of group g come from the nodes S
GroupHolds(g, S) == {g.elements[m].src : m \in 1..Len(g.elements)} = S

\* C16: in the output of the Clean Tree Parser a badge "NEW!" immediately
\* followed by the text "Poker Mania" and an overlapping tap element form
\* one group that holds all three, of type "game_card" and purpose "game".
C16_GameCardMerged ==
    (last.op = "parse_clean_tree" /\ IsBadgeTitleTap) =>
        /\ Len(CleanGroups) = 1
        /\ GroupHolds(CleanGroups[1], {1, 2, 3})
        /\ CleanGroups[1].type = "game_card"
        /\ CleanGroups[1].purpose = "game"

\* the elements parse_dedup_tree emits: the texts, inputs and actions of the
\* screen it returns
Emitted(r) == r.screen.texts \o r.screen.inputs \o r.screen.actions

\* one of the two elements is clickable and the other is not, or one is an
\* input and the other is not
OneSupersedes(a, b) ==
    a.clickable # b.clickable \/ (a.type = "input") # (b.type = "input")

Decided == last.called /\ last.le.reply.kind = "decision"

\* the element list the call in progress parsed from the on-disk snapshot
ParsedInCall == parse_for_llm(file.tree)

\* C18: analyze_screen_for_goal: a decision it returns carries the element
\* at element_index of the list parsed in that call; an element_index out of
\* range makes it fail with InvalidIndex; with the client imported and no
\* snapshot it fails with MissingSnapshot and the model is not called.
C18_AnalyzeResolvesElement ==
    last.op = "analyze_screen_for_goal" =>
        /\ last.result = "ok" =>
              /\ last.decision # None
              /\ InRange(last.decision[1].index, ParsedInCall)
              /\ last.decision[1].element =
                     Some(ParsedInCall[last.decision[1].index + 1])
        /\ (Decided /\ ~InRange(last.le.reply.index, ParsedInCall)) =>
              last.result = "InvalidIndex" /\ last.decision = None
        /\ (last.le.importOk /\ ~file.exists) =>
              last.result = "MissingSnapshot" /\ ~last.called

\* C19: choose_node_with_llm: once the model has answered with an integer
\* element_index, an index within the element list parsed from the on-disk
\* snapshot in that call yields the selector of that element, whatever node
\* list the caller passed, and any other index yields InvalidIndex and no
\* selector.
C19_LlmIndexResolved ==
    (last.op = "choose_node_with_llm" /\ Decided) =>
        IF InRange(last.le.reply.index, ParsedInCall)
        THEN /\ last.result = "ok"
             /\ last.sel =
                    Some(ElementSelector(ParsedInCall[last.le.reply.index + 1]))
        ELSE last.result = "InvalidIndex" /\ last.sel = None

\* the caller's list holds another node at the index the model chose, and
\* the selector returned is that of the parsed element
C19_Witness ==
    /\ last.op = "choose_node_with_llm"
    /\ Decided
    /\ last.result = "ok"
    /\ InRange(last.le.reply.index, last.nodes)
    /\ Some(StubSelector(last.nodes[last.le.reply.index + 1])) # last.sel

\* floor(n / 2) by its defining inequalities
HalfDown(n) == CHOOSE h \in 0..n : 2 * h <= n /\ n < 2 * (h + 1)

\* C21: a well-formed bounds string [x1,y1][x2,y2] of non-negative integers
\* with x1 <= x2 and y1 <= y2 parses to (x1, y1, x2, y2) and its center is
\* (floor((x1+x2)/2), floor((y1+y2)/2)), whatever follows the pattern; a text
\* that does not start with the pattern fails with InvalidInput.
C21_BoundsParseAndCenter ==
    last.op = "_parse_bounds" =>
        IF input.shape \in {"exact", "followed"}
        THEN (input.nums[1] <= input.nums[3] /\ input.nums[2] <= input.nums[4]) =>
                /\ last.result = "ok"
                /\ last.out = input.nums
                /\ last.tap = <<HalfDown(input.nums[1] + input.nums[3]),
                                HalfDown(input.nums[2] + input.nums[4])>>
        ELSE last.result = "InvalidInput" /\ last.tap = <<>>

\* "[0,100][7,400]": the sum of the x coordinates is odd and the center is
\* rounded down
C21_Witness ==
    /\ last.op = "_parse_bounds" /\ input.shape = "exact"
    /\ input.nums = <<0, 100, 7, 400>>
    /\ last.out = <<0, 100, 7, 400>>
    /\ last.tap = <<3, 250>>

\* the number of tap commands among the commands of a call
Taps(cmds) == Cardinality({i \in 1..Len(cmds) : cmds[i] = "tap"})

\* the well-formed bounds attributes of the screens with their integer
\* centers: "[0,2][4,9]" and "[10,0][13,1]x"
KnownCenters ==
    {<<BoundsA, <<2, 5>>>>,
     <<<<"[", "1", "0", ",", "0", "]", "[", "1", "3", ",", "1", "]", "x">>, <<11, 0>>>>}

\* C22: tap_node issues at most one tap per call, and only after a node
\* matched whose bounds attribute is present and well-formed, at the integer
\* center of these bounds; a call that ends with NotFound, MissingBounds (the
\* matched node has no or empty bounds) or a malformed bounds string issues
\* no tap.
C22_TapOnlyAtResolvedCenter ==
    last.op = "tap_node" =>
        /\ Taps(last.cmds) <= 1
        /\ Taps(last.cmds) = 1 =>
              /\ last.found \in 1..Len(file.tree)
              /\ <<file.tree[last.found].bounds, last.tap>> \in KnownCenters
        /\ last.result \in {"NotFound", "MissingBounds", "InvalidInput"} =>
              Taps(last.cmds) = 0 /\ last.tap = <<>>
        /\ (last.found \in 1..Len(file.tree)
              /\ file.tree[last.found].bounds = <<>>) =>
              last.result = "MissingBounds"
        /\ (last.found \in 1..Len(file.tree)
              /\ file.tree[last.found].bounds = BoundsBad) =>
              last.result = "InvalidInput"

\* a node matched and its bounds attribute is empty: the call ends with
\* MissingBounds after the capture and without a tap
C22_Witness ==
    /\ last.op = "tap_node" /\ last.result = "MissingBounds"
    /\ last.found \in 1..Len(file.tree)
    /\ file.tree[last.found].bounds = <<>>
    /\ last.cmds # <<>> /\ Taps(last.cmds) = 0

\* the type code and the clickable flag of the element built from a node
CodeAndFlag(n) ==
    <<IF n.class = "android.widget.Button" THEN "B" ELSE "T", n.clickable = "true">>

\* C23: in the grouping post-pass of parse_minimal_for_llm every list element
\* replaces a run of three or more consecutive elements that all have the
\* type code and the clickable flag of the run's first element, and below
\* five elements nothing is collapsed.
C23_ListRunsAreUniform ==
    last.op = "parse_minimal_for_llm" =>
        /\ Len(input.tree) < 5 => \A i \in 1..Len(last.out) : last.out[i].t # "L"
        /\ \A i \in 1..Len(last.out) :
              last.out[i].t = "L" =>
                 /\ last.out[i].n >= 3
                 /\ \A m \in 1..Len(last.out[i].items) :
                       CodeAndFlag(input.tree[last.out[i].items[m].src])
                           = CodeAndFlag(input.tree[last.out[i].src])

\* the element of an XML document at a path of child positions
RECURSIVE XmlAt(_, _)
XmlAt(root, path) ==
    IF path = <<>> THEN root ELSE XmlAt(root.kids[Head(path)], Tail(path))

\* the nodes of a semantic tree
RECURSIVE SemNodes(_)
SemNodes(n) ==
    {n} \cup UNION {SemNodes(n.children[i]) : i \in 1..Len(n.children)}

\* C24: in the tree build_tree returns, every formGroup of a container pairs
\* a label and an input that were direct children of that container in the
\* document, the input's top strictly below the label's bottom by less than
\* 100 and the centers less than 200 apart horizontally; no input is in two
\* formGroups; the input of a label's formGroup has the least score
\* vertical + 0.5 * horizontal among the valid inputs that no earlier label
\* of the container claimed, and a label left plain has no such input; every
\* label and every input of the container is in the result once, in a
\* formGroup or as a plain child.
C24_FormGroupsPairNearestValidInput ==
    last.op = "build_tree" =>
        LET Rect(p) == _parse_bounds_or_zero(XmlAt(input.tree, p).bounds)
            Kind(e) == _get_semantic_type(e.class, e.clickable = "true", e.text)
            IsLabelAt(p) ==
                Kind(XmlAt(input.tree, p)) = "label" /\ XmlAt(input.tree, p).text # ""
            IsInputAt(p) == Kind(XmlAt(input.tree, p)) = "input"
            \* distances between rectangles l and i, the horizontal one doubled
            Vertical(l, i) == i[2] - l[4]
            Horizontal2(l, i) == Abs((l[1] + l[3]) - (i[1] + i[3]))
            Valid(l, i) ==
                i[2] > l[4] /\ Vertical(l, i) < 100 /\ Horizontal2(l, i) < 2 * 200
            \* four times the score
            Score4(l, i) == 4 * Vertical(l, i) + Horizontal2(l, i)
            Holds(c, kids, n) ==
                LET IsGroup(a) == c.children[a].type = "formGroup"
                    \* the label a child of the result stands for, <<>> if none
                    LabelOf(a) ==
                        IF IsGroup(a) THEN c.children[a].labelSrc
                        ELSE IF c.children[a].type = "label" /\ c.children[a].text # ""
                        THEN c.children[a].src ELSE <<>>
                    InputOf(a) ==
                        IF IsGroup(a) THEN c.children[a].inputSrc
                        ELSE IF c.children[a].type = "input"
                        THEN c.children[a].src ELSE <<>>
                    \* input k of the document is in a formGroup of an earlier label
                    ClaimedBefore(k, lp) ==
                        \E b \in kids :
                            /\ IsGroup(b) /\ InputOf(b) = c.src \o <<k>>
                            /\ LabelOf(b)[Len(lp)] < lp[Len(lp)]
                    Free(lp) ==
                        {k \in 1..n : /\ IsInputAt(c.src \o <<k>>)
                                      /\ Valid(Rect(lp), Rect(c.src \o <<k>>))
                                      /\ ~ClaimedBefore(k, lp)}
                IN  /\ \A a \in kids : IsGroup(a) =>
                          /\ \E i, j \in 1..n :
                                /\ LabelOf(a) = c.src \o <<i>>
                                /\ InputOf(a) = c.src \o <<j>>
                          /\ IsLabelAt(LabelOf(a)) /\ IsInputAt(InputOf(a))
                          /\ c.children[a].label = XmlAt(input.tree, LabelOf(a)).text
                          /\ c.children[a].input[1].bounds = Rect(InputOf(a))
                          /\ Valid(Rect(LabelOf(a)), Rect(InputOf(a)))
                          /\ \A k \in Free(LabelOf(a)) :
                                Score4(Rect(LabelOf(a)), Rect(InputOf(a)))
                                    <= Score4(Rect(LabelOf(a)), Rect(c.src \o <<k>>))
                    /\ \A a, b \in kids :
                          IsGroup(a) /\ IsGroup(b) /\ a # b => InputOf(a) # InputOf(b)
                    /\ \A a \in kids :
                          ~IsGroup(a) /\ LabelOf(a) # <<>> => Free(LabelOf(a)) = {}
                    /\ \A k \in 1..n :
                          /\ IsLabelAt(c.src \o <<k>>) =>
                                Cardinality({a \in kids : LabelOf(a) = c.src \o <<k>>}) = 1
                          /\ IsInputAt(c.src \o <<k>>) =>
                                Cardinality({a \in kids : InputOf(a) = c.src \o <<k>>}) = 1
        IN  \A c \in SemNodes(last.out) :
                /\ c.type = "formGroup" =>
                      \E p \in SemNodes(last.out) :
                          p.type = "container" /\ \E a \in 1..Len(p.children) : p.children[a] = c
                /\ c.type = "container" =>
                      Holds(c, 1..Len(c.children), Len(XmlAt(input.tree, c.src).kids))

\* a label took the input with the least score although another valid input
\* was nearer vertically; that input and a second label, for which no valid
\* input was left, stayed plain
C24_Witness ==
    /\ last.op = "build_tree"
    /\ \E c \in SemNodes(last.out) :
          /\ c.type = "container"
          /\ \E a, b, d \in 1..Len(c.children) :
                /\ c.children[a].type = "formGroup" /\ c.children[a].label = "Email"
                /\ c.children[a].input[1].resourceId = "f1"
                /\ c.children[b].type = "label" /\ c.children[b].text = "Name"
                /\ c.children[d].type = "input" /\ c.children[d].resourceId = "f2"

\* C25: in the list the first pass of parse_clean_tree collects, an
\* interactive element whose nearest collected sibling before it (among the
\* children of the same parent) is an unclickable text has that text's label
\* as its parent_context, and an interactive element that comes right after
\* another interactive sibling does not have the label of the text before
\* them.
C25_CaptionGoesToNextInteractiveSibling ==
    last.op = "parse_clean_tree" =>
        LET Interactive(e) ==
                e.type \in {"input", "button", "checkbox", "radio"} \/ e.action = "tap"
            Caption(e) == e.type = "text" /\ e.action = ""
            Siblings(d, e) == input.tree[d.src].parent = input.tree[e.src].parent
            Holds(els) ==
                \A i, j \in 1..Len(els) :
                    /\ i < j /\ Siblings(els[i], els[j])
                    /\ \A k \in (i + 1)..(j - 1) : ~Siblings(els[k], els[j])
                    /\ Interactive(els[j])
                    => /\ Caption(els[i]) => els[j].parent_context = els[i].label
                       /\ Interactive(els[i]) =>
                             \A h \in 1..(i - 1) :
                                 Siblings(els[h], els[i]) /\ Caption(els[h])
                                 => els[j].parent_context # els[h].label
        IN  Holds(last.all_elements)

\* C26: a GOOGLE_AI_API_KEY that only the .env file defines counts as one of
\* the process environment: choose_node with a goal tries the LLM path, and
\* choose_node_with_llm and analyze_screen_for_goal select the API-key
\* client; so they do whenever both credentials are available, in the
\* process environment or in the file.
C26_EnvFileKeySelectsApiKeyBackend ==
    LET InFileOnly == last.pe.key = "unset" /\ input.dotenv.key = "set"
        Available(v, f) == v = "set" \/ (v = "unset" /\ f = "set")
        BothAvailable ==
            /\ Available(last.pe.key, input.dotenv.key)
            /\ Available(last.pe.project, input.dotenv.project)
    IN  /\ last.op = "choose_node" /\ last.goal \notin {NoGoal, ""} /\ InFileOnly
            => last.llm # ""
        /\ last.op \in {"choose_node_with_llm", "analyze_screen_for_goal"}
           /\ (InFileOnly \/ BothAvailable)
            => last.client = "simple"

\* the node of a snapshot the stub chooses: the first clickable node with a
\* text, else the first clickable node with a resource-id or content-desc
StubChoice(tree) ==
    LET Clickable(i) == tree[i].clickable = "true"
        WithText == {i \in 1..Len(tree) : Clickable(i) /\ tree[i].text # ""}
        WithId == {i \in 1..Len(tree) :
                      Clickable(i) /\ (tree[i].rid # "" \/ tree[i].desc # "")}
    IN  IF WithText # {} THEN Min(WithText)
        ELSE IF WithId # {} THEN Min(WithId) ELSE 0

\* C27: when run taps and the fresh snapshot shows the screen the selector
\* was planned on, the node tap_node resolved is the node the stub chose, a
\* clickable one, and the selector has a non-empty field.
C27_TapResolvesPlannedNode ==
    [][(/\ last'.op = "run" /\ last'.cmds # <<>> /\ last'.found # 0
        /\ last'.e.tree = file.tree)
       => /\ last'.found = StubChoice(file.tree)
          /\ file.tree[last'.found].clickable = "true"
          /\ last'.sel[1] # Selector("", "", "")]_vars

\* C28: every element the first pass of parse_clean_tree collected is in
\* exactly one group of the result, once, and total is the number of
\* collected elements.
C28_GroupingConservesElements ==
    last.op = "parse_clean_tree" =>
        LET Places(groups, e) ==
                {<<g, i>> \in (1..Len(groups)) \X (1..MaxCleanNodes + 2) :
                    i <= Len(groups[g].elements) /\ groups[g].elements[i].src = e.src}
            Holds(groups, els) ==
                /\ \A k \in 1..Len(els) : Cardinality(Places(groups, els[k])) = 1
                /\ last.out[1].total = Len(els)
        IN  Holds(last.out[1].groups, last.all_elements)

\* C29: in the result of parse_family_tree every enabled interactive node
\* with a label has exactly one element, with an id of its own, in exactly
\* one place (the members of one family or the orphans), and total_elements
\* is the number of these nodes.
C29_OneElementPerInteractiveNode ==
    last.op = "parse_family_tree" =>
        LET Interactive(n) ==
                /\ n.enabled = "true"
                /\ n.text # "" \/ n.desc # ""
                /\ \/ n.class \in {"android.widget.Button", "android.widget.EditText"}
                   \/ n.clickable = "true"
            Holds(r, nodes) ==
                LET \* the places of the result: <<0, i>> is orphan i, <<f, i>> member
                    \* i of family f
                    ElementAt(p) ==
                        IF p[1] = 0 THEN r.orphans[p[2]] ELSE r.families[p[1]].members[p[2]]
                    AllPlaces ==
                        {<<0, i>> : i \in 1..Len(r.orphans)}
                        \cup {<<f, i>> \in (1..Len(r.families)) \X (1..2 * Len(input.tree)) :
                                 i <= Len(r.families[f].members)}
                    PlacesOf(k) == {p \in AllPlaces : ElementAt(p).src = k}
                IN  /\ \A k \in 1..Len(nodes) :
                          Interactive(nodes[k]) => Cardinality(PlacesOf(k)) = 1
                    /\ \A p, q \in AllPlaces :
                          p # q => ElementAt(p).id # ElementAt(q).id
                    /\ r.total_elements =
                          Cardinality({k \in 1..Len(nodes) : Interactive(nodes[k])})
        IN  Holds(last.out[1], input.tree)

\* C30: in the result of parse_hierarchical_for_llm every enabled node with
\* an identity that is clickable, an input or a button has exactly one entry
\* in elements, count is the number of these nodes, and on every call of a
\* process the idx values are 0 .. count - 1.
C30_ElementsEnumerateActionableNodes ==
    last.op = "parse_hierarchical_for_llm" =>
        LET Actionable(n) ==
                /\ n.enabled = "true"
                /\ n.text # "" \/ n.desc # "" \/ n.rid # ""
                /\ \/ n.clickable = "true"
                   \/ n.class \in {"android.widget.Button", "android.widget.EditText"}
            Holds(r, nodes) ==
                /\ \A k \in 1..Len(nodes) :
                      Actionable(nodes[k]) =>
                          Cardinality({i \in 1..Len(r.elements) : r.elements[i].src = k}) = 1
                /\ r.count = Cardinality({k \in 1..Len(nodes) : Actionable(nodes[k])})
                /\ {r.elements[i].idx : i \in 1..Len(r.elements)} = 0..(r.count - 1)
        IN  Holds(last.out[1], input.tree)

====
